---- MODULE Spec2Model ----
(***************************************************************************)
(* Model of the evidence-collection and scoring pipeline:                  *)
(*   - the two Fetch Clients (`_get` of the Forum and of the Video         *)
(*     collector) with their retry loop, back-off and key rotation;        *)
(*   - the Video and Forum collectors' query loops and fallbacks;          *)
(*   - grouping, scoring and the canonical record built by run_ingest.     *)
(* Times are in tenths of a second; scores are fixed-point numbers with    *)
(* SCALE units to 1.0.                                                     *)
(***************************************************************************)
EXTENDS Integers, Naturals, Sequences, FiniteSets, TLC

(* ------------------------------------------------------------------ *)
(* Bounds of the model                                                 *)
(* ------------------------------------------------------------------ *)
NumProcs == 2
MaxKeys == 2
MaxRetries == 6

(* ------------------------------------------------------------------ *)
(* Program constants                                                   *)
(* ------------------------------------------------------------------ *)
DefaultRetries == 3
UserRetries == 2
ForumBackoff0 == 5
ForumBackoffCap == 100
VideoBackoff0 == 10

Procs == 1..NumProcs

\* What the server can answer to one request: a status (200 with a body that
\* parses or does not), or "err", a transport error (httpx.RequestError).
Responses == {"200ok", "200bad", "429", "503", "403", "404", "500", "err"}

\* The answers of a server that fails every request of a call with many retries:
\* a rate-limit status or a transport error.
FailingResponses == {"429", "err"}

\* The jitter math.sin(time.time()) % 1 lies in [0,1): in tenths, 0..9.
JitterVals == {0, 9}

VARIABLES
    kind,       \* kind[p]: which _get process p runs: "forum", "video", "idle"
    retries,    \* retries[p]: the call's retries argument
    script,     \* script[p]: the server's answers to p's successive requests
    attempt,    \* attempt[p]: requests issued so far by the call
    backoff,    \* backoff[p]: the local backoff, in tenths of a second
    slept,      \* slept[p]: the delays the call has slept, in order
    pc,         \* pc[p]: "request", "lock", "rotate", "sleep", "done"
    cause,      \* cause[p]: why p sleeps: "rate" (rate-limit branch) or "error" (except branch)
    outcome,    \* outcome[p]: "none", "body", "empty", "raised"
    nkeys,      \* len(YOUTUBE_API_KEYS)
    keyIndex,   \* _yt_key_index
    keyLock,    \* holder of _yt_key_lock, 0 when free
    pkey,       \* pkey[p]: the key index carried in the call's params["key"]
    idx0,       \* _yt_key_index when the calls started
    rateSeen,   \* number of 429/403 answers received by Video calls with a pool
    gets        \* gets[p]: which _get call of its caller p runs, counted from 1

fetchVars == <<kind, retries, script, attempt, backoff, slept, pc, cause, outcome,
               nkeys, keyIndex, keyLock, pkey, idx0, rateSeen, gets>>

(* ------------------------------------------------------------------ *)
(* Helpers                                                             *)
(* ------------------------------------------------------------------ *)
Min(a, b) == IF a <= b THEN a ELSE b
Max(a, b) == IF a >= b THEN a ELSE b

RECURSIVE SeqsOfLen(_, _)
SeqsOfLen(S, n) ==
    IF n = 0 THEN {<<>>}
    ELSE {Append(s, x) : s \in SeqsOfLen(S, n - 1), x \in S}

(* ------------------------------------------------------------------ *)
(* Forum _get: discourse_collector.py                                  *)
(* ------------------------------------------------------------------ *)
\* What one loop iteration does with the answer r (lines 39-61).
ForumStep(r) ==
    CASE r = "200ok"  -> "return_body"
      [] r = "200bad" -> "return_empty"
      [] r \in {"429", "503"} -> "sleep_rate"
      [] OTHER -> "sleep_error"   \* raise_for_status() or RequestError, caught at line 55

\* The backoff after a sleep (line 46, line 60).
ForumNextBackoff(b, c, jitter) ==
    IF c = "rate" THEN b * 2 ELSE Min(ForumBackoffCap, b * 2 + jitter)

\* The value after the loop has run out (line 62).
ForumExhausted == "empty"

(* ------------------------------------------------------------------ *)
(* Video _get: youtube_collector.py                                    *)
(* ------------------------------------------------------------------ *)
\* What one loop iteration does with the answer r (lines 31-54).
VideoStep(r) ==
    CASE r = "200ok"  -> "return_body"
      [] r = "200bad" -> "raise"       \* resp.json() raises a ValueError nobody catches
      [] r \in {"429", "403"} -> "rotate"
      [] OTHER -> "sleep_error"   \* raise_for_status() or RequestError, caught at line 51

\* The cursor advanced without wrapping around the pool.
NextKeyIndexNoWrap(i, n) == i + 1

\* Line 43.
NextKeyIndex(i, n) == (i + 1) % n

\* Lines 48 and 54.
VideoNextBackoff(b) == b * 2

\* After the loop has run out (line 55: raise RuntimeError).
VideoExhausted == "raised"

(* ------------------------------------------------------------------ *)
(* Initial states of the Fetch Client                                  *)
(* ------------------------------------------------------------------ *)
Backoff0(k) == IF k = "forum" THEN ForumBackoff0 ELSE VideoBackoff0

\* One call, of either client, against any server script; the Forum call also
\* with a `retries` argument of MaxRetries, against a server that keeps failing.
InitSingle ==
    /\ \E k \in {"forum", "video"} :
        /\ kind = [p \in Procs |-> IF p = 1 THEN k ELSE "idle"]
        /\ backoff = [p \in Procs |-> Backoff0(k)]
        /\ \E n \in (IF k = "video" THEN 0..MaxKeys ELSE {0}) :
            /\ nkeys = n
            /\ keyIndex \in 0..Max(n - 1, 0)
    /\ \E rt \in (IF kind[1] = "forum" THEN {DefaultRetries, UserRetries, MaxRetries}
                 ELSE {DefaultRetries}) :
        /\ retries = [p \in Procs |-> rt]
        /\ \E s \in SeqsOfLen(IF rt = MaxRetries THEN FailingResponses ELSE Responses, rt + 1) :
            script = [p \in Procs |-> IF p = 1 THEN s ELSE <<>>]
    /\ pc = [p \in Procs |-> IF p = 1 THEN "request" ELSE "done"]

\* The servers of the concurrent calls: k rate-limit answers (all 429 or all 403),
\* then 200 to every later request.
RateLimitScripts ==
    {[i \in 1..(2 * DefaultRetries) |-> IF i <= k THEN r ELSE "200ok"] :
        k \in 0..DefaultRetries, r \in {"429", "403"}}

\* Concurrent Video calls that share the key cursor.
InitConcurrent ==
    /\ kind = [p \in Procs |-> "video"]
    /\ backoff = [p \in Procs |-> VideoBackoff0]
    /\ nkeys \in 1..MaxKeys
    /\ keyIndex \in 0..(nkeys - 1)
    /\ retries = [p \in Procs |-> DefaultRetries]
    /\ script \in [Procs -> RateLimitScripts]
    /\ pc = [p \in Procs |-> "request"]

FetchInit ==
    /\ (InitSingle \/ InitConcurrent)
    /\ attempt = [p \in Procs |-> 0]
    /\ slept = [p \in Procs |-> <<>>]
    /\ cause = [p \in Procs |-> "none"]
    /\ outcome = [p \in Procs |-> "none"]
    /\ keyLock = 0
    /\ pkey = [p \in Procs |-> keyIndex]
    /\ idx0 = keyIndex
    /\ rateSeen = 0
    /\ gets = [p \in Procs |-> 1]

(* ------------------------------------------------------------------ *)
(* Actions of the Fetch Client                                         *)
(* ------------------------------------------------------------------ *)
Finish(p, o) ==
    /\ pc' = [pc EXCEPT ![p] = "done"]
    /\ outcome' = [outcome EXCEPT ![p] = o]

\* Forum: `resp = await client.get(...)` and the branch taken on the answer.
ForumRequest(p) ==
    /\ kind[p] = "forum" /\ pc[p] = "request" /\ attempt[p] < retries[p]
    /\ attempt' = [attempt EXCEPT ![p] = @ + 1]
    /\ LET st == ForumStep(script[p][attempt[p] + 1]) IN
        CASE st = "return_body"  -> Finish(p, "body") /\ UNCHANGED cause
          [] st = "return_empty" -> Finish(p, "empty") /\ UNCHANGED cause
          [] st = "sleep_rate"   -> /\ pc' = [pc EXCEPT ![p] = "sleep"]
                                    /\ cause' = [cause EXCEPT ![p] = "rate"]
                                    /\ UNCHANGED outcome
          [] OTHER               -> /\ pc' = [pc EXCEPT ![p] = "sleep"]
                                    /\ cause' = [cause EXCEPT ![p] = "error"]
                                    /\ UNCHANGED outcome
    /\ UNCHANGED <<kind, retries, script, backoff, slept, nkeys, keyIndex, keyLock,
                   pkey, idx0, rateSeen, gets>>

\* Forum: `await asyncio.sleep(backoff)`, the new backoff, `continue`.
ForumSleep(p) ==
    /\ kind[p] = "forum" /\ pc[p] = "sleep"
    /\ slept' = [slept EXCEPT ![p] = Append(@, backoff[p])]
    /\ \E j \in JitterVals :
        backoff' = [backoff EXCEPT ![p] = ForumNextBackoff(@, cause[p], j)]
    /\ pc' = [pc EXCEPT ![p] = "request"]
    /\ UNCHANGED <<kind, retries, script, attempt, cause, outcome, nkeys, keyIndex,
                   keyLock, pkey, idx0, rateSeen, gets>>

\* Forum: the loop has run out, `return {}`.
ForumGiveUp(p) ==
    /\ kind[p] = "forum" /\ pc[p] = "request" /\ attempt[p] = retries[p]
    /\ Finish(p, ForumExhausted)
    /\ UNCHANGED <<kind, retries, script, attempt, backoff, slept, cause, nkeys,
                   keyIndex, keyLock, pkey, idx0, rateSeen, gets>>

\* Video: `resp = await client.get(...)` and the branch taken on the answer.
VideoRequest(p) ==
    /\ kind[p] = "video" /\ pc[p] = "request" /\ attempt[p] < retries[p]
    /\ attempt' = [attempt EXCEPT ![p] = @ + 1]
    /\ LET st == VideoStep(script[p][attempt[p] + 1]) IN
        CASE st = "return_body" -> Finish(p, "body") /\ UNCHANGED <<cause, rateSeen>>
          [] st = "raise"       -> Finish(p, "raised") /\ UNCHANGED <<cause, rateSeen>>
          [] st = "rotate"      -> /\ pc' = [pc EXCEPT ![p] = IF nkeys > 0 THEN "lock" ELSE "sleep"]
                                   /\ cause' = [cause EXCEPT ![p] = "rate"]
                                   /\ rateSeen' = IF nkeys > 0 THEN rateSeen + 1 ELSE rateSeen
                                   /\ UNCHANGED outcome
          [] OTHER              -> /\ pc' = [pc EXCEPT ![p] = "sleep"]
                                   /\ cause' = [cause EXCEPT ![p] = "error"]
                                   /\ UNCHANGED <<outcome, rateSeen>>
    /\ UNCHANGED <<kind, retries, script, backoff, slept, nkeys, keyIndex, keyLock,
                   pkey, idx0, gets>>

\* Video: `async with _yt_key_lock:` entered.
VideoAcquire(p) ==
    /\ kind[p] = "video" /\ pc[p] = "lock" /\ keyLock = 0
    /\ keyLock' = p
    /\ pc' = [pc EXCEPT ![p] = "rotate"]
    /\ UNCHANGED <<kind, retries, script, attempt, backoff, slept, cause, outcome,
                   nkeys, keyIndex, pkey, idx0, rateSeen, gets>>

\* Video: the body of the lock (lines 42-46) and its release.
VideoRotate(p) ==
    /\ kind[p] = "video" /\ pc[p] = "rotate"
    /\ keyIndex' = NextKeyIndex(keyIndex, nkeys)
    /\ pkey' = [pkey EXCEPT ![p] = keyIndex']
    /\ keyLock' = 0
    /\ pc' = [pc EXCEPT ![p] = "sleep"]
    /\ UNCHANGED <<kind, retries, script, attempt, backoff, slept, cause, outcome,
                   nkeys, idx0, rateSeen, gets>>

\* Video: `await asyncio.sleep(backoff)`, `backoff *= 2`, next iteration.
VideoSleep(p) ==
    /\ kind[p] = "video" /\ pc[p] = "sleep"
    /\ slept' = [slept EXCEPT ![p] = Append(@, backoff[p])]
    /\ backoff' = [backoff EXCEPT ![p] = VideoNextBackoff(@)]
    /\ pc' = [pc EXCEPT ![p] = "request"]
    /\ UNCHANGED <<kind, retries, script, attempt, cause, outcome, nkeys, keyIndex,
                   keyLock, pkey, idx0, rateSeen, gets>>

\* Video: the loop has run out, `raise RuntimeError(...)`.
VideoGiveUp(p) ==
    /\ kind[p] = "video" /\ pc[p] = "request" /\ attempt[p] = retries[p]
    /\ Finish(p, VideoExhausted)
    /\ UNCHANGED <<kind, retries, script, attempt, backoff, slept, cause, nkeys,
                   keyIndex, keyLock, pkey, idx0, rateSeen, gets>>

\* Lines 67-71, 83 and 101 of search_videos: `key` is read from the pool once,
\* when the call starts, and put into the params of every request.
KeyOfRequest(start, cursor) == start

\* Video: the _get has returned a body and search_videos issues its next one (the
\* statistics batch of line 103 or the next page of line 89), with new params.
\* The server goes on with the answers it has left.
VideoNextGet(p) ==
    /\ kind[p] = "video" /\ pc[p] = "done" /\ outcome[p] = "body"
    /\ nkeys > 0
    /\ Len(script[p]) - attempt[p] >= retries[p]
    /\ script' = [script EXCEPT ![p] = SubSeq(@, attempt[p] + 1, Len(@))]
    /\ attempt' = [attempt EXCEPT ![p] = 0]
    /\ backoff' = [backoff EXCEPT ![p] = VideoBackoff0]
    /\ slept' = [slept EXCEPT ![p] = <<>>]
    /\ cause' = [cause EXCEPT ![p] = "none"]
    /\ outcome' = [outcome EXCEPT ![p] = "none"]
    /\ pc' = [pc EXCEPT ![p] = "request"]
    /\ pkey' = [pkey EXCEPT ![p] = KeyOfRequest(idx0, keyIndex)]
    /\ gets' = [gets EXCEPT ![p] = @ + 1]
    /\ UNCHANGED <<kind, retries, nkeys, keyIndex, keyLock, idx0, rateSeen>>

FetchNext ==
    \E p \in Procs :
        \/ ForumRequest(p)
        \/ ForumSleep(p)
        \/ ForumGiveUp(p)
        \/ VideoRequest(p)
        \/ VideoAcquire(p)
        \/ VideoRotate(p)
        \/ VideoSleep(p)
        \/ VideoGiveUp(p)
        \/ VideoNextGet(p)

(* ------------------------------------------------------------------ *)
(* Video collector: search_videos, search_videos_via_html and          *)
(* collect_seed_queries of youtube_collector.py                        *)
(* ------------------------------------------------------------------ *)
NumQueries == 2
MaxIds == 2
MaxPageIds == 2
VideoMaxPages == 2

Queries == 1..NumQueries
Ids == 1..MaxIds

RECURSIVE SeqsUpTo(_, _)
SeqsUpTo(S, n) == IF n = 0 THEN {<<>>} ELSE SeqsUpTo(S, n - 1) \cup SeqsOfLen(S, n)

\* The entity ids one response page can list.
PageIdSeqs == SeqsUpTo(Ids, MaxPageIds)

\* The same without repetition (ids collected through a set or dict.fromkeys).
DistinctIdSeqs == {s \in PageIdSeqs : \A i, j \in 1..Len(s) : i # j => s[i] # s[j]}

RECURSIVE SubSeqs(_)
SubSeqs(s) ==
    IF s = <<>> THEN {<<>>}
    ELSE LET r == SubSeqs(Tail(s)) IN r \cup {<<Head(s)>> \o t : t \in r}

Range(s) == {s[i] : i \in 1..Len(s)}

VARIABLES
    vHasKey,    \* YOUTUBE_API_KEY or YOUTUBE_API_KEYS is set
    vpc,        \* vpc[q]: "idle", "start", "search", "stats", "html", "done", "failed"
    vpages,     \* vpages[q]: the local `pages`
    vtoken,     \* vtoken[q]: the page just read has a nextPageToken
    vbatch,     \* vbatch[q]: video_ids of the page just read
    vitems,     \* vitems[q]: the local `items`
    vhtml,      \* vhtml[q]: the rendered results page has been requested for q
    vAll,       \* all_items of collect_seed_queries
    vOutcome    \* "idle", "running", "returned", "raised"

videoVars == <<vHasKey, vpc, vpages, vtoken, vbatch, vitems, vhtml, vAll, vOutcome>>

\* An evidence item of the Video collector: the entity and the query whose search
\* produced it.
VItem(q, id) == [sid |-> id, q |-> q]
VItems(q, ids) == [i \in 1..Len(ids) |-> VItem(q, ids[i])]

\* Line 64: which path search_videos takes.
VideoFirstStage(hasKey) == IF hasKey THEN "search" ELSE "html"

\* Lines 131-134 and the loop condition of line 77.
VideoAfterPage(pages, token) ==
    IF ~token \/ pages >= VideoMaxPages THEN "done" ELSE "search"

RECURSIVE GatherFrom(_, _, _)
GatherFrom(q, pcs, its) ==
    IF q > NumQueries THEN <<>>
    ELSE (IF pcs[q] = "done" THEN its[q] ELSE <<>>) \o GatherFrom(q + 1, pcs, its)

\* The results are dropped as soon as one task has failed.
VideoGatherAbort(pcs, its) ==
    IF \E q \in Queries : pcs[q] = "failed" THEN <<>> ELSE GatherFrom(1, pcs, its)

\* Lines 248-255: the results of the tasks that did not end in an exception.
VideoGather(pcs, its) == GatherFrom(1, pcs, its)

VideoInit ==
    /\ vHasKey \in BOOLEAN
    /\ vpc = [q \in Queries |-> "start"]
    /\ vpages = [q \in Queries |-> 0]
    /\ vtoken = [q \in Queries |-> FALSE]
    /\ vbatch = [q \in Queries |-> <<>>]
    /\ vitems = [q \in Queries |-> <<>>]
    /\ vhtml = [q \in Queries |-> FALSE]
    /\ vAll = <<>>
    /\ vOutcome = "running"

VideoIdle ==
    /\ vHasKey = FALSE
    /\ vpc = [q \in Queries |-> "idle"]
    /\ vpages = [q \in Queries |-> 0]
    /\ vtoken = [q \in Queries |-> FALSE]
    /\ vbatch = [q \in Queries |-> <<>>]
    /\ vitems = [q \in Queries |-> <<>>]
    /\ vhtml = [q \in Queries |-> FALSE]
    /\ vAll = <<>>
    /\ vOutcome = "idle"

\* search_videos is entered (lines 63-76).
VideoStart(q) ==
    /\ vpc[q] = "start"
    /\ vpc' = [vpc EXCEPT ![q] = VideoFirstStage(vHasKey)]
    /\ UNCHANGED <<vHasKey, vpages, vtoken, vbatch, vitems, vhtml, vAll, vOutcome>>

\* One search page (lines 77-93): _get raises, which ends the task, or returns a
\* page of ids.
VideoSearch(q) ==
    /\ vpc[q] = "search"
    /\ \/ /\ vpc' = [vpc EXCEPT ![q] = "failed"]
          /\ UNCHANGED <<vtoken, vbatch>>
       \/ /\ vpc' = [vpc EXCEPT ![q] = "done"]      \* no video id: break
          /\ UNCHANGED <<vtoken, vbatch>>
       \/ \E ids \in PageIdSeqs \ {<<>>}, tok \in BOOLEAN :
            /\ vpc' = [vpc EXCEPT ![q] = "stats"]
            /\ vbatch' = [vbatch EXCEPT ![q] = ids]
            /\ vtoken' = [vtoken EXCEPT ![q] = tok]
    /\ UNCHANGED <<vHasKey, vpages, vitems, vhtml, vAll, vOutcome>>

\* The statistics of the page's ids (lines 96-134; a page has at most 50 ids, so
\* there is one batch): _get raises, or returns entries for some of the ids.
VideoStats(q) ==
    /\ vpc[q] = "stats"
    /\ \/ /\ vpc' = [vpc EXCEPT ![q] = "failed"]
          /\ UNCHANGED <<vitems, vpages>>
       \/ \E got \in SubSeqs(vbatch[q]) :
            /\ vitems' = [vitems EXCEPT ![q] = @ \o VItems(q, got)]
            /\ vpages' = [vpages EXCEPT ![q] = @ + 1]
            /\ vpc' = [vpc EXCEPT ![q] = VideoAfterPage(vpages[q] + 1, vtoken[q])]
    /\ vbatch' = [vbatch EXCEPT ![q] = <<>>]
    /\ vtoken' = [vtoken EXCEPT ![q] = FALSE]
    /\ UNCHANGED <<vHasKey, vhtml, vAll, vOutcome>>

\* search_videos_via_html (lines 141-240): the page cannot be fetched or holds no
\* data blob (no item), or its entries are extracted.
VideoHtml(q) ==
    /\ vpc[q] = "html"
    /\ vhtml' = [vhtml EXCEPT ![q] = TRUE]
    /\ \E ids \in PageIdSeqs :
        vitems' = [vitems EXCEPT ![q] = VItems(q, ids)]
    /\ vpc' = [vpc EXCEPT ![q] = "done"]
    /\ UNCHANGED <<vHasKey, vpages, vtoken, vbatch, vAll, vOutcome>>

\* collect_seed_queries: gather has every task's result or exception.
VideoCollect ==
    /\ vOutcome = "running"
    /\ \A q \in Queries : vpc[q] \in {"done", "failed"}
    /\ vAll' = VideoGather(vpc, vitems)
    /\ vOutcome' = "returned"
    /\ UNCHANGED <<vHasKey, vpc, vpages, vtoken, vbatch, vitems, vhtml>>

VideoNext ==
    \/ \E q \in Queries :
        \/ VideoStart(q)
        \/ VideoSearch(q)
        \/ VideoStats(q)
        \/ VideoHtml(q)
    \/ VideoCollect

(* ------------------------------------------------------------------ *)
(* Forum collector: search_topics, collect_seed_queries and            *)
(* collect_recent_topics of discourse_collector.py                     *)
(* ------------------------------------------------------------------ *)
ForumMaxPages == 2

VARIABLES
    fpc,        \* where the Forum collect_seed_queries is: "idle", "api", "html", "detail",
                \* "recent_json", "recent_top", "recent_list", "recent_detail",
                \* "recent_entity", "dedupe", "done"
    fq,         \* the query of the running search_topics call
    fp,         \* its page
    ftopics,    \* the topics of the call whose detail is still to be fetched
    fres,       \* `results` of the running search_topics call
    fitems,     \* `items` of collect_seed_queries
    rpage,      \* collect_recent_topics: the listing page `p`
    rids,       \* collect_recent_topics: ids of the listing page still to be handled
    rseen,      \* collect_recent_topics: seen_ids
    rres,       \* collect_recent_topics: `results`
    fuq,        \* `uniq`, the value collect_seed_queries returns
    fOutcome,   \* "idle", "running", "returned", "raised"
    fTitle,     \* fTitle[id]: the queries that the title of topic id contains
    fProduced,  \* history: the source ids returned by the search_topics calls that returned
    fFailed,    \* history: the number of search_topics calls that raised
    fDropped,   \* history: ids search_topics left out after their detail request gave nothing
    fEntityPages \* history: ids whose rendered topic page was requested

forumVars == <<fpc, fq, fp, ftopics, fres, fitems, rpage, rids, rseen, rres, fuq,
               fOutcome, fTitle, fProduced, fFailed, fDropped, fEntityPages>>

\* An evidence item of the Forum collector: the topic it is about.
FItem(id) == [sid |-> id]

Sids(items) == {items[i].sid : i \in 1..Len(items)}

\* What _get can hand to its caller: a body of the expected shape, a body with an
\* "errors" entry, a body of another shape (a JSON list), or {} (retries used up
\* or body not parseable).
\* Line 133: the rendered search page is tried when the API gave {} or errors.
ForumNeedsHtmlSearch(data) == data \in {"empty", "errors"}

\* first-seen filter of lines 261-270, applied to the rest of the list.
RECURSIVE DedupeFrom(_, _)
DedupeFrom(items, seen) ==
    IF items = <<>> THEN <<>>
    ELSE IF Head(items).sid \in seen THEN DedupeFrom(Tail(items), seen)
    ELSE <<Head(items)>> \o DedupeFrom(Tail(items), seen \cup {Head(items).sid})

\* The filter keeps an item only when its id HAS been seen: nothing is kept.
RECURSIVE DedupeInverted(_, _)
DedupeInverted(items, seen) ==
    IF items = <<>> THEN <<>>
    ELSE IF Head(items).sid \notin seen THEN DedupeInverted(Tail(items), seen \cup {Head(items).sid})
    ELSE <<Head(items)>> \o DedupeInverted(Tail(items), seen)

ForumDedupeInverted(items) == DedupeInverted(items, {})

\* Lines 261-270.
ForumDedupe(items) == DedupeFrom(items, {})

\* Lines 253-257: the recent topics whose title contains a query, query by query.
RECURSIVE RecentMatches(_, _, _)
RecentMatches(q, recent, title) ==
    IF q > NumQueries THEN <<>>
    ELSE SelectSeq(recent, LAMBDA t : q \in title[t.sid])
            \o RecentMatches(q + 1, recent, title)

ForumInit ==
    /\ fpc = "api"
    /\ fq = 1
    /\ fp = 0
    /\ ftopics = <<>>
    /\ fres = <<>>
    /\ fitems = <<>>
    /\ rpage = 0
    /\ rids = <<>>
    /\ rseen = {}
    /\ rres = <<>>
    /\ fuq = <<>>
    /\ fOutcome = "running"
    /\ fTitle = [i \in Ids |-> {}]
    /\ fProduced = {}
    /\ fFailed = 0
    /\ fDropped = {}
    /\ fEntityPages = {}

ForumIdle ==
    /\ fpc = "idle"
    /\ fq = 1
    /\ fp = 0
    /\ ftopics = <<>>
    /\ fres = <<>>
    /\ fitems = <<>>
    /\ rpage = 0
    /\ rids = <<>>
    /\ rseen = {}
    /\ rres = <<>>
    /\ fuq = <<>>
    /\ fOutcome = "idle"
    /\ fTitle = [i \in Ids |-> {}]
    /\ fProduced = {}
    /\ fFailed = 0
    /\ fDropped = {}
    /\ fEntityPages = {}

\* The search_topics call (fq, fp) is over, with a value or with an exception:
\* lines 243-248 extend `items` or skip, and the loops move on; after the last
\* call, line 250 chooses between the recent-topics fallback and the filter.
ForumEndCall(ok, res) ==
    LET items2 == IF ok THEN fitems \o res ELSE fitems
        last == fq = NumQueries /\ fp + 1 >= ForumMaxPages
    IN  /\ fitems' = items2
        /\ fProduced' = IF ok THEN fProduced \cup Sids(res) ELSE fProduced
        /\ fFailed' = IF ok THEN fFailed ELSE fFailed + 1
        /\ fres' = <<>>
        /\ ftopics' = <<>>
        /\ fp' = IF last THEN fp ELSE IF fp + 1 >= ForumMaxPages THEN 0 ELSE fp + 1
        /\ fq' = IF last THEN fq ELSE IF fp + 1 >= ForumMaxPages THEN fq + 1 ELSE fq
        /\ fpc' = IF ~last THEN "api" ELSE IF items2 = <<>> THEN "recent_json" ELSE "dedupe"

\* search_topics, lines 126-133 and 165-172: the structured search request.
ForumSearchApi ==
    /\ fpc = "api"
    /\ \/ \* {} or an "errors" body: on to the rendered search page
          /\ \E d \in {"empty", "errors"} : ForumNeedsHtmlSearch(d)
          /\ fpc' = "html"
          /\ UNCHANGED <<fq, fp, ftopics, fres, fitems, fProduced, fFailed>>
       \/ \* a body that is no mapping: data.get raises out of search_topics
          ForumEndCall(FALSE, <<>>)
       \/ \* a body with rows, possibly none
          \E ids \in PageIdSeqs :
            IF ids = <<>> THEN ForumEndCall(TRUE, <<>>)
            ELSE /\ ftopics' = ids
                 /\ fpc' = "detail"
                 /\ UNCHANGED <<fq, fp, fres, fitems, fProduced, fFailed>>
    /\ UNCHANGED <<rpage, rids, rseen, rres, fuq, fOutcome, fTitle, fDropped,
                   fEntityPages>>

\* search_topics, lines 134-172: the rendered search page and the ids found in it
\* (none when the page cannot be fetched).
ForumSearchHtml ==
    /\ fpc = "html"
    /\ \E ids \in DistinctIdSeqs :
        IF ids = <<>> THEN ForumEndCall(TRUE, <<>>)
        ELSE /\ ftopics' = ids
             /\ fpc' = "detail"
             /\ UNCHANGED <<fq, fp, fres, fitems, fProduced, fFailed>>
    /\ UNCHANGED <<rpage, rids, rseen, rres, fuq, fOutcome, fTitle, fDropped, fEntityPages>>

\* search_topics, lines 176-235: the detail request of the next topic.
ForumDetail ==
    /\ fpc = "detail" /\ ftopics # <<>>
    /\ LET tid == Head(ftopics) IN
        \/ \* `if not td: continue`
           /\ fDropped' = fDropped \cup {tid}
           /\ ftopics' = Tail(ftopics)
           /\ UNCHANGED <<fq, fp, fres, fitems, fProduced, fFailed, fpc>>
        \/ \* a body: the evidence item is appended
           /\ fres' = Append(fres, FItem(tid))
           /\ ftopics' = Tail(ftopics)
           /\ UNCHANGED <<fq, fp, fitems, fProduced, fFailed, fpc, fDropped>>
        \/ \* a body that is no mapping: td.get raises out of search_topics
           /\ ForumEndCall(FALSE, <<>>)
           /\ UNCHANGED fDropped
    /\ UNCHANGED <<rpage, rids, rseen, rres, fuq, fOutcome, fTitle, fEntityPages>>

\* search_topics, line 237: `return results`.
ForumReturn ==
    /\ fpc = "detail" /\ ftopics = <<>>
    /\ ForumEndCall(TRUE, fres)
    /\ UNCHANGED <<rpage, rids, rseen, rres, fuq, fOutcome, fTitle, fDropped,
                   fEntityPages>>

\* The items made of the topics of a JSON list (lines 295-324).
JsonItems(ids) == [i \in 1..Len(ids) |-> FItem(ids[i])]

\* collect_recent_topics, lines 279-324: /latest.json (fpc = "recent_json"), then
\* /top.json when the first gave no topic; the topics listed become items.
RecentJson ==
    /\ fpc \in {"recent_json", "recent_top"}
    /\ \E ids \in PageIdSeqs :
        IF ids = <<>> /\ fpc = "recent_json"
        THEN /\ fpc' = "recent_top"
             /\ UNCHANGED <<rseen, rres>>
        ELSE /\ fpc' = "recent_list"
             /\ rseen' = Range(ids)
             /\ rres' = JsonItems(ids)
    /\ IF fpc = "recent_json" THEN fTitle' \in [Ids -> SUBSET Queries] ELSE UNCHANGED fTitle
    /\ rpage' = 0
    /\ rids' = <<>>
    /\ UNCHANGED <<fq, fp, ftopics, fres, fitems, fuq, fOutcome, fProduced, fFailed,
                   fDropped, fEntityPages>>

\* collect_recent_topics, lines 327-346: the next rendered listing page and the
\* ids found in it (none when the page cannot be fetched); after the last page,
\* lines 253-257 of collect_seed_queries keep the topics that match a query.
RecentListing ==
    /\ fpc = "recent_list" /\ rids = <<>>
    /\ IF rpage < ForumMaxPages * 2
       THEN /\ \E ids \in DistinctIdSeqs : rids' = ids
            /\ rpage' = rpage + 1
            /\ UNCHANGED <<fitems, fpc>>
       ELSE /\ fitems' = fitems \o RecentMatches(1, rres, fTitle)
            /\ fpc' = "dedupe"
            /\ UNCHANGED <<rids, rpage>>
    /\ UNCHANGED <<fq, fp, ftopics, fres, rseen, rres, fuq, fOutcome, fTitle, fProduced,
                   fFailed, fDropped, fEntityPages>>

\* collect_recent_topics, lines 347-368 and 411-428: the next id of the listing
\* page: skipped when the JSON list had it, else its detail is requested.
RecentDetail ==
    /\ fpc = "recent_list" /\ rids # <<>>
    /\ LET tid == Head(rids) IN
        IF tid \in rseen
        THEN /\ rids' = Tail(rids)
             /\ UNCHANGED <<rres, fpc>>
        ELSE \/ \* a body: the item is built from it
                /\ rres' = Append(rres, FItem(tid))
                /\ rids' = Tail(rids)
                /\ UNCHANGED fpc
             \/ \* a body that is no mapping: the exception is caught at line 427
                /\ rids' = Tail(rids)
                /\ UNCHANGED <<rres, fpc>>
             \/ \* {}: on to the rendered topic page
                /\ fpc' = "recent_entity"
                /\ UNCHANGED <<rres, rids>>
    /\ UNCHANGED <<fq, fp, ftopics, fres, fitems, rpage, rseen, fuq, fOutcome, fTitle,
                   fProduced, fFailed, fDropped, fEntityPages>>

\* collect_recent_topics, lines 369-426: the rendered topic page; the item is
\* built from what the patterns find, or skipped when the request raises.
RecentEntityPage ==
    /\ fpc = "recent_entity"
    /\ fEntityPages' = fEntityPages \cup {Head(rids)}
    /\ \/ rres' = Append(rres, FItem(Head(rids)))
       \/ UNCHANGED rres
    /\ rids' = Tail(rids)
    /\ fpc' = "recent_list"
    /\ UNCHANGED <<fq, fp, ftopics, fres, fitems, rpage, rseen, fuq, fOutcome, fTitle,
                   fProduced, fFailed, fDropped>>

\* collect_seed_queries, lines 261-270.
ForumFinish ==
    /\ fpc = "dedupe"
    /\ fuq' = ForumDedupe(fitems)
    /\ fOutcome' = "returned"
    /\ fpc' = "done"
    /\ UNCHANGED <<fq, fp, ftopics, fres, fitems, rpage, rids, rseen, rres, fTitle,
                   fProduced, fFailed, fDropped, fEntityPages>>

ForumNext ==
    \/ ForumSearchApi
    \/ ForumSearchHtml
    \/ ForumDetail
    \/ ForumReturn
    \/ RecentJson
    \/ RecentListing
    \/ RecentDetail
    \/ RecentEntityPage
    \/ ForumFinish

(* ------------------------------------------------------------------ *)
(* Evidence items                                                      *)
(* ------------------------------------------------------------------ *)
\* A Python value of a numeric metric: None (or missing), an int, or a string
\* that is no number, such as "bad".
NoneV == [tag |-> "none", n |-> 0]
IntV(n) == [tag |-> "int", n |-> n]
StrV == [tag |-> "str", n |-> 0]

\* A recency timestamp: None, a string fromisoformat rejects ("bad"), an ISO
\* string without offset ("naive"), or an ISO string n days before now ("iso").
NoTs == [tag |-> "none", n |-> 0]
BadTs == [tag |-> "bad", n |-> 0]
NaiveTs(n) == [tag |-> "naive", n |-> n]
IsoTs(n) == [tag |-> "iso", n |-> n]

\* A string or None; a string is the sequence of its characters.
NoneS == [tag |-> "none", s |-> <<>>]
Str(s) == [tag |-> "str", s |-> s]

\* interest_over_time: missing, flat (timestamp -> value; cols is the one list of
\* values) or nested (column -> timestamp -> value; cols lists the columns).
NoIot == [shape |-> "none", cols |-> <<>>]
FlatIot(vals) == [shape |-> "flat", cols |-> <<vals>>]
NestedIot(cols) == [shape |-> "nested", cols |-> cols]

\* The metrics of an item. Counts are integers; growth_pct_30d is a real, held in
\* the fixed-point units of the scoring engine.
Metrics(views, likes, comments, replies, growth, pub, first, country, iot) ==
    [views |-> views, likes |-> likes, comments |-> comments, replies |-> replies,
     growth_pct_30d |-> growth, published_at |-> pub, first_post_ts |-> first,
     country |-> country, interest_over_time |-> iot]

EvItem(platform, sid, title, keyword, country, m) ==
    [platform |-> platform, source_id |-> sid, title |-> title, keyword |-> keyword,
     country |-> country, metrics |-> m]

\* Python truth of a metric value, and `a or b`.
Truthy(v) == v.tag = "str" \/ (v.tag = "int" /\ v.n # 0)
PyOr(a, b) == IF Truthy(a) THEN a ELSE b
TruthyTs(t) == t.tag # "none"
TruthyS(x) == x.tag = "str" /\ x.s # <<>>

(* ------------------------------------------------------------------ *)
(* Scoring engine: score.py. Reals are fixed-point, SCALE units to 1.0 *)
(* ------------------------------------------------------------------ *)
SCALE == 10000
Ln2 == 6931
HalfLifeDays == 30
VScaleDiv == 10
EScaleMul == 10
TanhSaturation == 20
RatioCap == 10
MaxExactRatio == 200000

RECURSIVE Pow2(_)
Pow2(k) == IF k = 0 THEN 1 ELSE 2 * Pow2(k - 1)

RECURSIVE FloorLog2(_)
FloorLog2(n) == IF n < 2 THEN 0 ELSE 1 + FloorLog2(n \div 2)

RECURSIVE SumSeq(_)
SumSeq(s) == IF s = <<>> THEN 0 ELSE Head(s) + SumSeq(Tail(s))

\* ln(n) for an integer n >= 1: n = 2^k * m with 1 <= m < 2, and
\* ln(m) = 2 atanh((m - 1)/(m + 1)) by its series.
LnFix(n) ==
    LET k == FloorLog2(n)
        mF == IF k <= 14 THEN (n * SCALE) \div Pow2(k)
              ELSE ((n \div Pow2(k - 14)) * SCALE) \div Pow2(14)
        z == ((mF - SCALE) * SCALE) \div (mF + SCALE)
        z2 == (z * z) \div SCALE
        z3 == (z2 * z) \div SCALE
        z5 == (z3 * z2) \div SCALE
        z7 == (z5 * z2) \div SCALE
    IN  k * Ln2 + 2 * (z + z3 \div 3 + z5 \div 5 + z7 \div 7)

\* exp(-y) for y >= 0: y = k ln2 + r, exp(-r) by its series, halved k times.
ExpNegFix(y) ==
    LET k == y \div Ln2
        r == y % Ln2
        r2 == (r * r) \div SCALE
        r3 == (r2 * r) \div SCALE
        r4 == (r3 * r) \div SCALE
        r5 == (r4 * r) \div SCALE
        t == SCALE - r + r2 \div 2 - r3 \div 6 + r4 \div 24 - r5 \div 120
    IN  IF k > 30 THEN 0 ELSE t \div Pow2(k)

\* math.tanh(g); from 20 on the float result is exactly 1.0.
TanhFix(g) ==
    LET a == IF g < 0 THEN 0 - g ELSE g
        e == ExpNegFix(2 * a)
        t == IF a >= TanhSaturation * SCALE THEN SCALE
             ELSE ((SCALE - e) * SCALE) \div (SCALE + e)
    IN  IF g < 0 THEN 0 - t ELSE t

\* a / b for counts a >= 0, b > 0. Quotients of RatioCap or more are reported as
\* RatioCap: the engagement they feed is clamped to 1 long before.
RatioFix(a, b) ==
    IF a \div b >= RatioCap \/ a > MaxExactRatio THEN RatioCap * SCALE
    ELSE (a * SCALE) \div b

\* log1p_norm (lines 6-7), of an integer count.
Log1pNorm(x) == LnFix(1 + Max(0, x))

\* The value returned without the clamp.
Clamp01Identity(x) == x

\* clamp01 (lines 19-20).
Clamp01(x) == Max(0, Min(SCALE, x))

\* The decay without the factor ln 2: e^(-age/half_life).
DecayMultiplierNatural(pub) ==
    IF pub.tag # "iso" THEN SCALE
    ELSE IF pub.n >= 0 THEN ExpNegFix((SCALE * pub.n) \div HalfLifeDays)
    ELSE (SCALE * SCALE) \div ExpNegFix((SCALE * (0 - pub.n)) \div HalfLifeDays)

\* decay_multiplier (lines 10-16), called by compute_item_scores inside a try
\* (lines 68-72): a string that does not parse gives 1.0; so does a timestamp
\* without offset, whose subtraction from an aware `now` raises.
DecayMultiplier(pub) ==
    IF pub.tag # "iso" THEN SCALE
    ELSE IF pub.n >= 0 THEN ExpNegFix((Ln2 * pub.n) \div HalfLifeDays)
    ELSE (SCALE * SCALE) \div ExpNegFix((Ln2 * (0 - pub.n)) \div HalfLifeDays)

\* Lines 34-43: the values averaged for a trend item.
TrendVals(iot) ==
    IF iot.shape = "none" THEN <<>>
    ELSE IF iot.shape = "flat" THEN iot.cols[1]
    ELSE [i \in 1..Len(iot.cols) |-> Head(iot.cols[i])]

TrendViews(iot) ==
    LET vals == TrendVals(iot) IN SumSeq(vals) \div Max(1, Len(vals))

IsTrend(item) == item.platform = "GoogleTrends"

\* `views` as compute_item_scores uses it (lines 30-43).
ItemViews(item) ==
    IF IsTrend(item) THEN IntV(TrendViews(item.metrics.interest_over_time))
    ELSE PyOr(item.metrics.views, IntV(0))

ItemLikes(item) == PyOr(item.metrics.likes, IntV(0))
ItemComments(item) == PyOr(PyOr(item.metrics.comments, item.metrics.replies), IntV(0))
\* A missing growth taken as a growth of 100 %.
ItemGrowthOne(item) == PyOr(item.metrics.growth_pct_30d, IntV(SCALE))
ItemGrowth(item) == PyOr(item.metrics.growth_pct_30d, IntV(0))

\* The ratios are taken whatever the views: a string among likes or comments
\* raises, and so does a division by 0 views.
ItemRaisesDividing(item) ==
    \/ ItemViews(item).tag = "str"
    \/ ItemViews(item).n = 0
    \/ ItemLikes(item).tag = "str" \/ ItemComments(item).tag = "str"
    \/ ItemGrowth(item).tag = "str"

\* compute_item_scores raises a TypeError: max(0.0, views) on a string (line 45),
\* a string divided by views (lines 52-53), tanh of a string (line 62), or the
\* first value of an empty column (line 40).
ItemRaises(item) ==
    \/ ItemViews(item).tag = "str"
    \/ /\ ItemViews(item).n > 0
       /\ (ItemLikes(item).tag = "str" \/ ItemComments(item).tag = "str")
    \/ ItemGrowth(item).tag = "str"
    \/ /\ IsTrend(item)
       /\ item.metrics.interest_over_time.shape = "nested"
       /\ \E i \in 1..Len(item.metrics.interest_over_time.cols) :
            item.metrics.interest_over_time.cols[i] = <<>>

\* compute_item_scores (lines 23-74).
ComputeItemScores(item) ==
    IF ItemRaises(item) THEN [err |-> TRUE, V |-> 0, E |-> 0, T |-> 0, D |-> 0]
    ELSE
    LET views == ItemViews(item).n
        likes == ItemLikes(item).n
        comments == ItemComments(item).n
        Vnorm == Clamp01(Log1pNorm(views) \div VScaleDiv)
        ltv == IF views > 0 THEN RatioFix(likes, views) ELSE 0
        ctv == IF views > 0 THEN RatioFix(comments, views) ELSE 0
        Eraw == (6 * ltv + 4 * ctv) \div 10
        Enorm == Clamp01(Eraw * EScaleMul)
        Tnorm == Clamp01((TanhFix(ItemGrowth(item).n) + SCALE) \div 2)
        pub == IF TruthyTs(item.metrics.published_at) THEN item.metrics.published_at
               ELSE item.metrics.first_post_ts
        D == IF TruthyTs(pub) THEN DecayMultiplier(pub) ELSE SCALE
    IN  [err |-> FALSE, V |-> Vnorm, E |-> Enorm, T |-> Tnorm, D |-> D]

\* Line 79.
DefaultWeights == [V |-> 5000, E |-> 3000, T |-> 2000]

\* mean (lines 88-89), with the default of lines 91-94 for no item.
MeanOr(lst, dflt) == IF lst = <<>> THEN dflt ELSE SumSeq(lst) \div Len(lst)

\* aggregate_workflow (lines 77-101).
AggregateWorkflow(evidence, weights) ==
    LET s == [i \in 1..Len(evidence) |-> ComputeItemScores(evidence[i])] IN
    IF \E i \in 1..Len(s) : s[i].err
    THEN [err |-> TRUE, popularity_score |-> 0, V |-> 0, E |-> 0, T |-> 0,
          decay_multiplier |-> 0]
    ELSE
    LET Vw == MeanOr([i \in 1..Len(s) |-> s[i].V], 0)
        Ew == MeanOr([i \in 1..Len(s) |-> s[i].E], 0)
        Tw == MeanOr([i \in 1..Len(s) |-> s[i].T], 0)
        Dw == MeanOr([i \in 1..Len(s) |-> s[i].D], SCALE)
        raw == (weights.V * Vw + weights.E * Ew + weights.T * Tw) \div SCALE
    IN  [err |-> FALSE, popularity_score |-> Clamp01((raw * Dw) \div SCALE),
         V |-> Vw, E |-> Ew, T |-> Tw, decay_multiplier |-> Dw]

(* ------------------------------------------------------------------ *)
(* Trends collector: trends_collector.py, collect_keyword_trends       *)
(* ------------------------------------------------------------------ *)
NumPairs == 2

\* Lines 67-68.
TrendsBackoff0 == 5
TrendsAttempts == 4

\* The keywords and regions of a call; the loops of lines 64-65 visit the pairs
\* region by region.
TrendKeywords == <<"a", "b">>
TrendGeos == <<"US", "IN">>
PairAt(p) ==
    [geo |-> TrendGeos[((p - 1) \div Len(TrendKeywords)) + 1],
     kw |-> TrendKeywords[((p - 1) % Len(TrendKeywords)) + 1]]

\* Interest series the service may answer with, as the list of the values of the
\* keyword's column.
TrendSeries == {<<10, 90>>, <<40>>}

\* What the requests of one attempt meet (lines 70-96). build: build_payload
\* succeeds ("ok"), raises and succeeds on the client made at line 81
\* ("fallback"), or raises there too, with a rate-limit message ("rate") or
\* another one ("other"); made: the constructor of line 81 returned. iot:
\* interest_over_time raises, is None or empty ("empty"), or holds data.
\* ibr: interest_by_region; related: related_queries.
Outcome(build, made, iot, ibr, related, series) ==
    [build |-> build, made |-> made, iot |-> iot, ibr |-> ibr, related |-> related,
     series |-> series]

AttemptOutcomes ==
    {Outcome(b, m, "data", "ok", "ok", <<>>) : b \in {"rate", "other"}, m \in BOOLEAN}
    \cup {Outcome(b, TRUE, i, "ok", "ok", <<>>) :
            b \in {"ok", "fallback"}, i \in {"rate", "other", "empty"}}
    \cup {Outcome(b, TRUE, "data", r, "ok", <<>>) :
            b \in {"ok", "fallback"}, r \in {"rate", "other"}}
    \cup {Outcome(b, TRUE, "data", "ok", q, s) :
            b \in {"ok", "fallback"}, q \in {"ok", "rate", "other"}, s \in TrendSeries}

\* How the attempt ends: with an exception that reaches line 164, of a
\* rate-limit message ("rate", line 167) or not ("other"); at the break of line
\* 90 ("empty"); or at the append of line 162 ("item"). What related_queries
\* raises is caught at lines 95-96 and the attempt goes on.
Kind(o) ==
    IF o.build \in {"rate", "other"} THEN o.build
    ELSE IF o.iot \in {"rate", "other"} THEN o.iot
    ELSE IF o.iot = "empty" THEN "empty"
    ELSE IF o.ibr \in {"rate", "other"} THEN o.ibr
    ELSE "item"

\* Line 81: the client is replaced once build_payload has raised and the
\* constructor has returned.
ClientAfter(client, o) ==
    IF o.build = "fallback" \/ (o.build \in {"rate", "other"} /\ o.made) THEN "fallback"
    ELSE client

\* Lines 122-133 for a series of fewer than 30 values: the two windows are the
\* mean of the series, so the growth is 0.
TrendGrowth(vals) ==
    LET last30 == IF vals = <<>> THEN 0 ELSE SumSeq(vals) \div Len(vals)
        prev30 == last30
    IN  IntV(IF prev30 # 0 THEN ((last30 - prev30) * SCALE) \div Max(1, prev30) ELSE 0)

\* Lines 147-161. DataFrame.to_dict gives column -> timestamp -> value, for the
\* keyword's column and for the isPartial column of flags.
TrendsItem(p, series) ==
    EvItem("GoogleTrends", Str(<<"trends", PairAt(p).kw, PairAt(p).geo>>), NoneS,
           Str(<<PairAt(p).kw>>), Str(<<PairAt(p).geo>>),
           Metrics(NoneV, NoneV, NoneV, NoneV, TrendGrowth(series), NoTs, NoTs, NoneS,
                   NestedIot(<<series, [i \in 1..Len(series) |-> 0]>>)))

\* Lines 147-161: the top-level keys of the dict the collector appends.
TrendsItemFields == {"platform", "source_id", "keyword", "country", "metrics", "scrape_ts"}

VARIABLES
    tPair,     \* the pair the loops of lines 64-65 are at
    tAttempt,  \* `attempt` of the next iteration of line 69
    tBackoff,  \* `backoff`
    tSlept,    \* seconds of the last time.sleep(backoff)
    tClient,   \* `pytrend`: "custom", "default", "fallback" or "none"
    tResults,  \* `results`
    tLast,     \* how the last attempt ended
    tTries,    \* attempts made, by pair
    tEnd,      \* how each pair ended
    tRaised,   \* an exception left collect_keyword_trends
    tpc        \* "loop" or "done"

trendsVars == <<tPair, tAttempt, tBackoff, tSlept, tClient, tResults, tLast, tTries,
                tEnd, tRaised, tpc>>

Pairs == 1..NumPairs

\* Lines 32-39: the client with the custom headers, the default one, or None.
TrendsInit ==
    /\ tPair = 1
    /\ tAttempt = 0
    /\ tBackoff = TrendsBackoff0
    /\ tSlept = 0
    /\ tClient \in {"custom", "default", "none"}
    /\ tResults = <<>>
    /\ tLast = "none"
    /\ tTries = [p \in Pairs |-> 0]
    /\ tEnd = [p \in Pairs |-> "pending"]
    /\ tRaised = FALSE
    /\ tpc = "loop"

TrendsIdle ==
    /\ tPair = 1
    /\ tAttempt = 0
    /\ tBackoff = TrendsBackoff0
    /\ tSlept = 0
    /\ tClient = "none"
    /\ tResults = <<>>
    /\ tLast = "none"
    /\ tTries = [p \in Pairs |-> 0]
    /\ tEnd = [p \in Pairs |-> "pending"]
    /\ tRaised = FALSE
    /\ tpc = "done"

\* An item is appended for an empty series too.
AppendedUnlessError(results, k, item) ==
    IF k \in {"item", "empty"} THEN Append(results, item) ELSE results

\* Lines 88-90 and 162: `results` after the attempt.
Appended(results, k, item) == IF k = "item" THEN Append(results, item) ELSE results

\* Every exception is followed by a sleep and another attempt.
RetriedOnAnyError(k) == k \in {"rate", "other"}

\* Lines 167-171: the attempt is followed by a sleep and `continue`.
Retried(k) == k = "rate"

\* Line 164: `except Exception` catches whatever the attempt raises.
Caught(k) == TRUE

\* One iteration of the loop of line 69: lines 70-173.
TrendsAttempt(o) ==
    /\ tpc = "loop"
    /\ tPair <= NumPairs
    /\ tClient = "none" => o.build # "ok"
    /\ LET k == Kind(o)
           ends == ~Retried(k) \/ tAttempt + 1 >= TrendsAttempts
       IN  /\ tLast' = k
           /\ tTries' = [tTries EXCEPT ![tPair] = @ + 1]
           /\ tClient' = ClientAfter(tClient, o)
           /\ IF k \in {"rate", "other"} /\ ~Caught(k)
              THEN /\ tRaised' = TRUE
                   /\ tpc' = "done"
                   /\ UNCHANGED <<tPair, tAttempt, tBackoff, tSlept, tResults, tEnd>>
              ELSE /\ tResults' = Appended(tResults, k, TrendsItem(tPair, o.series))
                   /\ tSlept' = IF Retried(k) THEN tBackoff ELSE tSlept
                   /\ tBackoff' = IF ends THEN TrendsBackoff0
                                  ELSE IF Retried(k) THEN 2 * tBackoff ELSE tBackoff
                   /\ tAttempt' = IF ends THEN 0 ELSE tAttempt + 1
                   /\ tPair' = IF ends THEN tPair + 1 ELSE tPair
                   /\ tEnd' = IF ends
                              THEN [tEnd EXCEPT ![tPair] = IF Retried(k) THEN "exhausted" ELSE k]
                              ELSE tEnd
                   /\ UNCHANGED <<tRaised, tpc>>

\* Line 174.
TrendsReturn ==
    /\ tpc = "loop"
    /\ tPair > NumPairs
    /\ tpc' = "done"
    /\ UNCHANGED <<tPair, tAttempt, tBackoff, tSlept, tClient, tResults, tLast, tTries,
                   tEnd, tRaised>>

TrendsNext ==
    \/ \E o \in AttemptOutcomes : TrendsAttempt(o)
    \/ TrendsReturn

(* ------------------------------------------------------------------ *)
(* The scoring engine applied to a list of evidence                    *)
(* ------------------------------------------------------------------ *)
MaxEvidence == 2

VARIABLES
    sEvidence,  \* the `evidence` argument of aggregate_workflow
    sWeights,   \* its `weights` argument
    sDone,      \* the call has returned or raised
    sComps,     \* what compute_item_scores returned for each item (line 82)
    sResult     \* what it returned

scoreVars == <<sEvidence, sWeights, sDone, sComps, sResult>>

NoResult == [err |-> FALSE, popularity_score |-> 0, V |-> 0, E |-> 0, T |-> 0,
             decay_multiplier |-> 0]

\* Items with well-formed metrics: counts that are missing, zero, ordinary or very
\* large, a growth that is missing, positive or very negative, and a timestamp
\* that is missing, unparseable, in the past or in the future.
ScoreViews == {NoneV, IntV(0), IntV(1000), IntV(2000000000)}
ScoreLikes == {NoneV, IntV(5000)}
ScoreGrowth == {NoneV, IntV(5000)}
ScoreTs == {BadTs, IsoTs(30), IsoTs(0 - 60)}

ScoreItem(v, l, c, g, ts) ==
    EvItem("YouTube", Str(<<"x">>), Str(<<"a">>), NoneS, NoneS,
           Metrics(v, l, c, NoneV, g, ts, NoTs, NoneS, NoIot))

\* A trend item whose series is stored flat, timestamp -> value.
FlatTrendItem(series) ==
    EvItem("GoogleTrends", Str(<<"trends", "flat">>), NoneS, NoneS, NoneS,
           Metrics(NoneV, NoneV, NoneV, NoneV, NoneV, NoTs, NoTs, NoneS, FlatIot(series)))

\* The items above, an item without views whose likes are no number, items
\* published now and two half-lives ago, an item with no metric at all, and
\* trend items: one with a flat
\* series and those the Trends collector builds.
ScoreItems ==
    {ScoreItem(v, l, NoneV, g, ts) :
        v \in ScoreViews, l \in ScoreLikes, g \in ScoreGrowth, ts \in ScoreTs}
    \cup {ScoreItem(IntV(1000), IntV(50), IntV(10), IntV(0 - 300000), NoTs),
          ScoreItem(IntV(2000000000), IntV(2000000000), IntV(2000000000),
                    IntV(300000), NaiveTs(400)),
          ScoreItem(IntV(0), StrV, IntV(10), NoneV, NoTs),
          ScoreItem(IntV(1000), NoneV, NoneV, NoneV, IsoTs(0)),
          ScoreItem(IntV(1000), NoneV, NoneV, NoneV, IsoTs(2 * HalfLifeDays)),
          ScoreItem(NoneV, NoneV, NoneV, NoneV, NoTs),
          FlatTrendItem(<<10, 90>>)}
    \cup {TrendsItem(1, s) : s \in TrendSeries}

\* Weights a caller may pass instead of the default ones.
HeavyWeights == [V |-> 10000, E |-> 10000, T |-> 10000]

ScoreInit ==
    /\ sEvidence \in SeqsUpTo(ScoreItems, MaxEvidence)
    /\ sWeights \in {DefaultWeights, HeavyWeights}
    /\ sDone = FALSE
    /\ sComps = <<>>
    /\ sResult = NoResult

ScoreIdle ==
    /\ sEvidence = <<>>
    /\ sWeights = DefaultWeights
    /\ sDone = TRUE
    /\ sComps = <<>>
    /\ sResult = NoResult

\* aggregate_workflow(sEvidence, sWeights).
ScoreAggregate ==
    /\ ~sDone
    /\ sComps' = [i \in 1..Len(sEvidence) |-> ComputeItemScores(sEvidence[i])]
    /\ sResult' = AggregateWorkflow(sEvidence, sWeights)
    /\ sDone' = TRUE
    /\ UNCHANGED <<sEvidence, sWeights>>

ScoreNext == ScoreAggregate

(* ------------------------------------------------------------------ *)
(* Grouping and ingest: ingest.py                                      *)
(* ------------------------------------------------------------------ *)
\* The characters titles are written with.
Chars == {"a", "b", "A", "1", " ", "!"}
AlnumOrSpace == {"a", "b", "1", " "}

\* str.lower on one character.
Lower(c) == IF c = "A" THEN "a" ELSE c

\* Line 24: a run of whitespace becomes one space.
RECURSIVE Squeeze(_)
Squeeze(s) ==
    IF Len(s) < 2 THEN s
    ELSE IF s[1] = " " /\ s[2] = " " THEN Squeeze(Tail(s))
    ELSE <<s[1]>> \o Squeeze(Tail(s))

\* str.strip on a string whose whitespace runs are single spaces.
Strip(s) ==
    LET a == IF s # <<>> /\ Head(s) = " " THEN Tail(s) ELSE s
    IN  IF a # <<>> /\ a[Len(a)] = " " THEN SubSeq(a, 1, Len(a) - 1) ELSE a

\* normalize_title (lines 19-25).
normalize_title(t) ==
    IF t = <<>> THEN <<>>
    ELSE Strip(Squeeze([i \in 1..Len(t) |->
            IF Lower(t[i]) \in AlnumOrSpace THEN Lower(t[i]) ELSE " "]))

\* `it.get("title") or it.get("keyword") or ""` (lines 31 and 107).
TitleOf(it) ==
    IF TruthyS(it.title) THEN it.title.s
    ELSE IF TruthyS(it.keyword) THEN it.keyword.s
    ELSE <<>>

\* str(uuid.uuid4()) drawn for the item at position i: a string no title, no
\* source_id and no other position yields.
Uuid(i) == <<"uuid">> \o [j \in 1..i |-> "-"]

\* The fallback key is the source_id without its region suffix.
GroupKeyByBase(it, i) ==
    LET key == normalize_title(TitleOf(it)) IN
    IF key # <<>> THEN key
    ELSE IF TruthyS(it.source_id) THEN <<Head(it.source_id.s)>>
    ELSE Uuid(i)

\* The key group_evidence gives the item at position i (lines 31-35).
GroupKey(it, i) ==
    LET key == normalize_title(TitleOf(it)) IN
    IF key # <<>> THEN key
    ELSE IF TruthyS(it.source_id) THEN it.source_id.s
    ELSE Uuid(i)

KeysOf(items) == [i \in 1..Len(items) |-> GroupKey(items[i], i)]

\* The elements of s in order of first occurrence.
RECURSIVE Distinct(_)
Distinct(s) ==
    IF s = <<>> THEN <<>>
    ELSE LET r == Distinct(SubSeq(s, 1, Len(s) - 1)) IN
         IF s[Len(s)] \in Range(r) THEN r ELSE Append(r, s[Len(s)])

\* group_evidence (lines 28-37): the keys in insertion order, and under each key
\* its items in arrival order.
GroupKeys(items) == Distinct(KeysOf(items))

GroupMembers(items, key) ==
    LET ks == KeysOf(items)
        HasKey(i) == ks[i] = key
        sel == SelectSeq([i \in 1..Len(items) |-> i], HasKey)
    IN  [j \in 1..Len(sel) |-> items[sel[j]]]

\* Counter(s).most_common(1)[0][0]: the most frequent element, the one met first
\* among those equally frequent.
Count(s, x) == Cardinality({i \in 1..Len(s) : s[i] = x})
FirstIndex(s, x) == CHOOSE i \in 1..Len(s) : s[i] = x /\ \A j \in 1..(i - 1) : s[j] # x
MostCommon(s) ==
    s[CHOOSE i \in 1..Len(s) :
        /\ i = FirstIndex(s, s[i])
        /\ \A j \in 1..Len(s) :
             \/ Count(s, s[i]) > Count(s, s[j])
             \/ Count(s, s[i]) = Count(s, s[j]) /\ i <= FirstIndex(s, s[j])]

\* int(v) under try/except (lines 130-142): a string that is no number adds nothing.
IntOrZero(v) == IF v.tag = "int" THEN v.n ELSE 0

TotalViews(evidence) ==
    SumSeq([i \in 1..Len(evidence) |-> IntOrZero(PyOr(evidence[i].metrics.views, IntV(0)))])
TotalLikes(evidence) ==
    SumSeq([i \in 1..Len(evidence) |-> IntOrZero(PyOr(evidence[i].metrics.likes, IntV(0)))])
TotalComments(evidence) ==
    SumSeq([i \in 1..Len(evidence) |->
        IntOrZero(PyOr(PyOr(evidence[i].metrics.comments, evidence[i].metrics.replies),
                       IntV(0)))])

\* Lines 144-148.
TotalRatio(total, total_views) ==
    IF total_views > 0 THEN IntV((total * SCALE) \div total_views) ELSE NoneV

\* The platform of the representative item, the first of the group.
PlatformOfFirst(evidence) ==
    IF evidence[1].platform # "" THEN evidence[1].platform ELSE "mixed"

\* Lines 111-113; a platform of "" stands for a missing one.
PlatformOf(evidence) ==
    LET Present(p) == p # ""
        platforms == SelectSeq([i \in 1..Len(evidence) |-> evidence[i].platform], Present)
    IN  IF platforms # <<>> THEN MostCommon(platforms) ELSE "mixed"

\* Lines 115-119.
CountryOf(evidence) ==
    LET countries == SelectSeq([i \in 1..Len(evidence) |-> evidence[i].metrics.country],
                               TruthyS)
    IN  IF countries # <<>> THEN MostCommon(countries) ELSE NoneS

\* The canonical item of one group (lines 105-179), given the result of
\* aggregate_workflow, the uuid drawn for it and the time of the run.
CanonicalItem(evidence, agg, id, now) ==
    LET tv == TotalViews(evidence)
        tl == TotalLikes(evidence)
        tc == TotalComments(evidence)
    IN  [id |-> id,
         workflow |-> MostCommon([i \in 1..Len(evidence) |-> TitleOf(evidence[i])]),
         platform |-> PlatformOf(evidence),
         source_id |-> evidence[1].source_id,
         country |-> CountryOf(evidence),
         evidence_count |-> Len(evidence),
         popularity_metrics |->
            [rep |-> evidence[1].metrics, views |-> tv, likes |-> tl, comments |-> tc,
             like_to_view_ratio |-> TotalRatio(tl, tv),
             comment_to_view_ratio |-> TotalRatio(tc, tv)],
         popularity_score |-> agg.popularity_score,
         score_components |-> [V |-> agg.V, E |-> agg.E, T |-> agg.T,
                               decay_multiplier |-> agg.decay_multiplier],
         last_updated |-> now]

\* The statement as a plain INSERT: the row is added whatever the table holds.
InsertRow(table, item) == table \cup {item}

\* The storage is the set of rows of the workflows table. One statement of
\* upsert_to_db (lines 48-88): a row with a new source_id is inserted; one whose
\* source_id exists (ON CONFLICT, line 87) updates every column but id.
UpsertRow(table, item) ==
    IF \E r \in table : r.source_id = item.source_id
    THEN {IF r.source_id = item.source_id THEN [item EXCEPT !.id = r.id] ELSE r :
            r \in table}
    ELSE table \cup {item}

RECURSIVE UpsertAll(_, _)
UpsertAll(table, items) ==
    IF items = <<>> THEN table
    ELSE UpsertAll(UpsertRow(table, Head(items)), Tail(items))

\* A statement fails on a row without source_id (models.py: nullable=False).
UpsertFails(items) == \E i \in 1..Len(items) : items[i].source_id.tag = "none"

\* The rows written before the statement that failed stay in the table.
RECURSIVE KeptUntilFailure(_, _)
KeptUntilFailure(table, items) ==
    IF items = <<>> \/ Head(items).source_id.tag = "none" THEN table
    ELSE KeptUntilFailure(UpsertRow(table, Head(items)), Tail(items))

\* Lines 46 and 90-93: an exception leaves the `async with engine.begin()` block,
\* which rolls the transaction back; the table is as before the call.
RolledBack(table, items) == table

MaxRaw == 3

VARIABLES
    rawExists,      \* data/workflows.json exists
    raw,            \* its content
    engineUp,       \* the database can be reached
    fileWritable,   \* data/canonical_workflows.json can be opened for writing
    writeFallback,  \* the write_json_fallback argument
    ipc,            \* where run_ingest is
    groupKeys,      \* the keys of `groups`, in iteration order
    gi,             \* the group the loop of line 105 is at
    canonical,      \* the `canonical` list
    db,             \* the workflows table
    canonFile,      \* the canonical snapshot file
    nextId,         \* the next uuid
    upsertOk,       \* what upsert_to_db returned: "ok" or "failed"; "none" before
    iError,         \* the exception run_ingest raised, if any
    clock,          \* the time, counted in runs
    runs            \* the runs of run_ingest begun

ingestVars == <<rawExists, raw, engineUp, fileWritable, writeFallback, ipc, groupKeys,
                gi, canonical, db, canonFile, nextId, upsertOk, iError, clock, runs>>

\* The time of the run, and of an earlier one.
RunTime == 1
EarlierTime == 0

NoFile == [present |-> FALSE, recs |-> <<>>]
EmptyDb == {}

IngestItem(sid, title, views, likes, comments, replies) ==
    EvItem("YouTube", sid, Str(title), NoneS, NoneS,
           Metrics(views, likes, comments, replies, NoneV, NoTs, NoTs, NoneS, NoIot))

\* An item of title "a" from the given platform ("" for none) whose metrics carry
\* the given country.
IngestItemFrom(platform, country) ==
    EvItem(platform, Str(<<"x">>), Str(<<"a">>), NoneS, NoneS,
           Metrics(NoneV, NoneV, NoneV, NoneV, NoneV, NoTs, NoTs, country, NoIot))

\* Raw evidence under two titles, with views that are missing, zero, a number or
\* the string "bad", and likes and comments alike; items that differ in platform
\* and metrics.country; and an item of the Trends collector.
IngestItems ==
    {IngestItem(Str(<<"x">>), <<"a">>, v, NoneV, NoneV, NoneV) :
        v \in {NoneV, IntV(0), IntV(100), StrV}}
    \cup {IngestItem(Str(<<"x">>), <<"A", "!">>, IntV(100), IntV(7), IntV(2), NoneV),
          IngestItem(Str(<<"x">>), <<"a">>, NoneV, StrV, StrV, IntV(3)),
          IngestItem(Str(<<"y">>), <<"b">>, IntV(100), StrV, NoneV, NoneV),
          IngestItem(Str(<<"y">>), <<"b">>, IntV(0), IntV(7), NoneV, IntV(3)),
          IngestItem(NoneS, <<"b", " ", "1">>, IntV(100), IntV(7), NoneV, NoneV)}
    \cup {IngestItemFrom("YouTube", Str(<<"US">>)),
          IngestItemFrom("Discourse", Str(<<"IN">>)),
          IngestItemFrom("", NoneS),
          TrendsItem(2, <<40>>)}

\* A record an earlier run left, in the table and in the snapshot file.
EarlierItem ==
    CanonicalItem(<<IngestItem(Str(<<"x">>), <<"a">>, IntV(100), NoneV, NoneV, NoneV)>>,
                  AggregateWorkflow(<<>>, DefaultWeights), 0, EarlierTime)

IngestInit ==
    /\ rawExists \in BOOLEAN
    /\ raw \in (IF rawExists THEN SeqsUpTo(IngestItems, MaxRaw) ELSE {<<>>})
    /\ engineUp \in BOOLEAN
    /\ fileWritable \in BOOLEAN
    /\ writeFallback \in BOOLEAN
    /\ ipc = "start"
    /\ groupKeys = <<>>
    /\ gi = 1
    /\ canonical = <<>>
    /\ \/ db = EmptyDb /\ canonFile = NoFile
       \/ /\ db = UpsertRow(EmptyDb, EarlierItem)
          /\ canonFile = [present |-> TRUE, recs |-> <<EarlierItem>>]
    /\ nextId = 1
    /\ upsertOk = "none"
    /\ iError = "none"
    /\ clock = RunTime
    /\ runs = 1

IngestIdle ==
    /\ rawExists = FALSE
    /\ raw = <<>>
    /\ engineUp = FALSE
    /\ fileWritable = FALSE
    /\ writeFallback = FALSE
    /\ ipc = "done"
    /\ groupKeys = <<>>
    /\ gi = 1
    /\ canonical = <<>>
    /\ db = EmptyDb
    /\ canonFile = NoFile
    /\ nextId = 1
    /\ upsertOk = "none"
    /\ iError = "none"
    /\ clock = RunTime
    /\ runs = 1

\* The existence of the raw file is not tested.
AfterStartUnchecked(exists) == "build"

\* Lines 97-99: where run_ingest goes on after the test of the raw file.
AfterStart(exists) == IF exists THEN "build" ELSE "done"

\* Lines 97-104: no raw file, return; else load it and group it.
IngestStart ==
    /\ ipc = "start"
    /\ ipc' = AfterStart(rawExists)
    /\ groupKeys' = IF rawExists THEN GroupKeys(raw) ELSE groupKeys
    /\ UNCHANGED <<rawExists, raw, engineUp, fileWritable, writeFallback, gi, canonical,
                   db, canonFile, nextId, upsertOk, iError, clock, runs>>

\* One iteration of the loop of lines 105-179. aggregate_workflow is called first
\* (line 122); what it raises leaves run_ingest.
IngestBuild ==
    /\ ipc = "build"
    /\ gi <= Len(groupKeys)
    /\ LET evidence == GroupMembers(raw, groupKeys[gi])
           agg == AggregateWorkflow(evidence, DefaultWeights)
       IN  IF agg.err
           THEN /\ iError' = "TypeError"
                /\ ipc' = "done"
                /\ UNCHANGED <<gi, canonical, nextId>>
           ELSE /\ canonical' = Append(canonical, CanonicalItem(evidence, agg, nextId, clock))
                /\ nextId' = nextId + 1
                /\ gi' = gi + 1
                /\ UNCHANGED <<ipc, iError>>
    /\ UNCHANGED <<rawExists, raw, engineUp, fileWritable, writeFallback, groupKeys, db,
                   canonFile, upsertOk, clock, runs>>

\* upsert_to_db (lines 40-93), called at line 182: one transaction, rolled back as
\* a whole when the engine cannot be reached or a statement fails.
IngestUpsert ==
    /\ ipc = "build"
    /\ gi > Len(groupKeys)
    /\ IF engineUp /\ ~UpsertFails(canonical)
       THEN /\ db' = UpsertAll(db, canonical)
            /\ upsertOk' = "ok"
            /\ ipc' = "done"
       ELSE /\ upsertOk' = "failed"
            /\ ipc' = "fallback"
            /\ db' = IF engineUp THEN RolledBack(db, canonical) ELSE db
    /\ UNCHANGED <<rawExists, raw, engineUp, fileWritable, writeFallback, groupKeys, gi,
                   canonical, canonFile, nextId, iError, clock, runs>>

\* The records are added to what the file held.
FallbackAppended(old, recs) == [present |-> TRUE, recs |-> old.recs \o recs]

\* Lines 195-196: the file is opened with mode "w" and the list dumped into it.
FallbackWritten(old, recs) == [present |-> TRUE, recs |-> recs]

\* The failure to open the file is swallowed.
FallbackErrorSwallowed(writable) == "none"

\* Lines 187-196 are under no try: what makedirs or open raises leaves run_ingest.
FallbackError(writable) == IF writable THEN "none" ELSE "OSError"

\* Lines 185-199: the snapshot file is overwritten with the records of the run,
\* unless the fallback is disabled; failing to open the file raises.
IngestFallback ==
    /\ ipc = "fallback"
    /\ ipc' = "done"
    /\ IF ~writeFallback THEN UNCHANGED <<canonFile, iError>>
       ELSE /\ iError' = FallbackError(fileWritable)
            /\ canonFile' = IF fileWritable THEN FallbackWritten(canonFile, canonical)
                            ELSE canonFile
    /\ UNCHANGED <<rawExists, raw, engineUp, fileWritable, writeFallback, groupKeys, gi,
                   canonical, db, nextId, upsertOk, clock, runs>>

IngestNext ==
    \/ IngestStart
    \/ IngestBuild
    \/ IngestUpsert
    \/ IngestFallback

(* ------------------------------------------------------------------ *)
(* Several runs of run_ingest over one storage                         *)
(* ------------------------------------------------------------------ *)
MaxRuns == 2

StoreItem(sid, title, views) == IngestItem(sid, title, IntV(views), NoneV, NoneV, NoneV)

\* Raw files: empty, one entity, the same entity with other counts, two entities,
\* two titles under one source_id, and an item without source_id.
StoreRaws ==
    {<<>>,
     <<StoreItem(Str(<<"x">>), <<"a">>, 100)>>,
     <<StoreItem(Str(<<"x">>), <<"a">>, 0), StoreItem(Str(<<"x">>), <<"a">>, 100)>>,
     <<StoreItem(Str(<<"y">>), <<"b">>, 100), StoreItem(Str(<<"x">>), <<"a">>, 0)>>,
     <<StoreItem(Str(<<"x">>), <<"b">>, 0), StoreItem(Str(<<"x">>), <<"a">>, 100)>>,
     <<StoreItem(Str(<<"y">>), <<"b">>, 0), StoreItem(NoneS, <<"a">>, 100)>>}

StoreInit ==
    /\ rawExists \in BOOLEAN
    /\ raw \in (IF rawExists THEN StoreRaws ELSE {<<>>})
    /\ engineUp \in BOOLEAN
    /\ fileWritable \in BOOLEAN
    /\ writeFallback \in BOOLEAN
    /\ ipc = "start"
    /\ groupKeys = <<>>
    /\ gi = 1
    /\ canonical = <<>>
    /\ db = EmptyDb
    /\ canonFile = NoFile
    /\ nextId = 1
    /\ upsertOk = "none"
    /\ iError = "none"
    /\ clock = RunTime
    /\ runs = 1

\* run_ingest is called again, later: the raw file, the database and the file
\* system are as they are then; the table and the snapshot file are as the
\* earlier runs left them.
IngestAgain ==
    /\ ipc = "done"
    /\ runs < MaxRuns
    /\ runs' = runs + 1
    /\ clock' = clock + 1
    /\ rawExists' \in BOOLEAN
    /\ raw' \in (IF rawExists' THEN StoreRaws ELSE {<<>>})
    /\ engineUp' \in BOOLEAN
    /\ fileWritable' \in BOOLEAN
    /\ writeFallback' \in BOOLEAN
    /\ ipc' = "start"
    /\ groupKeys' = <<>>
    /\ gi' = 1
    /\ canonical' = <<>>
    /\ upsertOk' = "none"
    /\ iError' = "none"
    /\ UNCHANGED <<db, canonFile, nextId>>

StoreNext ==
    \/ IngestStart
    \/ IngestBuild
    \/ IngestUpsert
    \/ IngestFallback
    \/ IngestAgain

(* ------------------------------------------------------------------ *)
(* group_evidence applied to a list and to a permutation of it         *)
(* ------------------------------------------------------------------ *)
\* The keys of one call of group_evidence whose uuids are drawn after `base`
\* earlier ones: a uuid is never drawn twice.
KeysOfCall(items, base) == [i \in 1..Len(items) |-> GroupKey(items[i], base + i)]

\* The list under a key is replaced by the item, not extended with it.
GroupEvidenceOverwriting(items, base) ==
    LET ks == KeysOfCall(items, base)
        Last(key) == CHOOSE i \in 1..Len(items) :
                        ks[i] = key /\ \A j \in (i + 1)..Len(items) : ks[j] # key
    IN  [keys |-> Distinct(ks), groups |-> [k \in Range(ks) |-> <<items[Last(k)]>>]]

\* group_evidence (lines 28-37): the dict it returns, as its keys in insertion
\* order and the list under each key.
GroupEvidence(items, base) ==
    LET ks == KeysOfCall(items, base)
        Members(key) ==
            LET HasKey(i) == ks[i] = key
                sel == SelectSeq([i \in 1..Len(items) |-> i], HasKey)
            IN  [j \in 1..Len(sel) |-> items[sel[j]]]
    IN  [keys |-> Distinct(ks), groups |-> [k \in Range(ks) |-> Members(k)]]

MaxGroupItems == 3

VARIABLES
    gItems,   \* the list given to group_evidence
    gOrder,   \* the order in which the second call is given the same items
    gpc,      \* "first", "second" or "done"
    gFirst,   \* the result of the call on gItems
    gSecond   \* the result of the call on the permuted list

groupVars == <<gItems, gOrder, gpc, gFirst, gSecond>>

NoMetrics == Metrics(NoneV, NoneV, NoneV, NoneV, NoneV, NoTs, NoTs, NoneS, NoIot)

GroupItem(sid, title, keyword) == EvItem("YouTube", sid, title, keyword, NoneS, NoMetrics)

\* Source ids of one entity collected for two regions.
SidUS == <<"x", ":", ":", "U", "S">>
SidIN == <<"x", ":", ":", "I", "N">>

\* Items with a title, with a title that normalizes to nothing, with a keyword
\* only, and with neither; with and without a source_id.
GroupItems ==
    {GroupItem(Str(SidUS), Str(<<"a">>), NoneS),
     GroupItem(Str(SidIN), Str(<<"A", "!">>), NoneS),
     GroupItem(Str(SidIN), Str(<<"b", " ", " ", "1">>), NoneS),
     GroupItem(Str(SidUS), Str(<<"!">>), NoneS),
     GroupItem(Str(SidIN), Str(<<"!", " ">>), NoneS),
     GroupItem(Str(SidUS), NoneS, Str(<<"b", " ", "1">>)),
     GroupItem(Str(<<"a">>), Str(<<>>), NoneS),
     GroupItem(NoneS, NoneS, NoneS)}

Perms(n) == {f \in [1..n -> 1..n] : \A i, j \in 1..n : f[i] = f[j] => i = j}

NoGroups == [keys |-> <<>>, groups |-> [k \in {} |-> <<>>]]

GroupInit ==
    /\ gItems \in SeqsUpTo(GroupItems, MaxGroupItems)
    /\ gOrder = [i \in 1..Len(gItems) |-> i]
    /\ gpc = "first"
    /\ gFirst = NoGroups
    /\ gSecond = NoGroups

GroupIdle ==
    /\ gItems = <<>>
    /\ gOrder = <<>>
    /\ gpc = "done"
    /\ gFirst = NoGroups
    /\ gSecond = NoGroups

\* group_evidence(gItems).
GroupFirst ==
    /\ gpc = "first"
    /\ gFirst' = GroupEvidence(gItems, 0)
    /\ gpc' = "second"
    /\ UNCHANGED <<gItems, gOrder, gSecond>>

\* group_evidence on the same items in another order.
GroupSecond ==
    /\ gpc = "second"
    /\ \E f \in Perms(Len(gItems)) :
         /\ gOrder' = f
         /\ gSecond' = GroupEvidence([i \in 1..Len(gItems) |-> gItems[f[i]]], Len(gItems))
    /\ gpc' = "done"
    /\ UNCHANGED <<gItems, gFirst>>

GroupNext ==
    \/ GroupFirst
    \/ GroupSecond

(* ------------------------------------------------------------------ *)
(* infer_user_country and its cache: discourse_collector.py            *)
(* ------------------------------------------------------------------ *)
MaxCalls == 3

\* Usernames; "" is the empty one.
Users == {"u1", "u2"}
Usernames == Users \cup {""}

\* What a profile gives as `cand` (lines 85-97), lower-cased; "" when it gives
\* nothing.
Locations == {"", "india", "usa", "in", "berlin", "russia"}

\* The substring and equality tests of lines 99-116 on these strings.
HasIndia(s) == s = "india"
HasIn(s) == s \in {"india", "in", "berlin"}
HasUs(s) == s \in {"usa", "russia"}

\* Lines 98-116: the country inferred from `cand`, "None" when no test matches.
InferFrom(s) ==
    IF s = "" THEN "None"
    ELSE IF HasIndia(s) \/ (HasIn(s) /\ HasIndia(s)) THEN "IN"
    ELSE IF HasIndia(s) THEN "IN"
    ELSE IF HasUs(s) THEN "US"
    ELSE IF s = "in" THEN "IN"
    ELSE IF s = "us" THEN "US"
    ELSE "None"

\* What _get hands back for /u/{username}.json: the profile, {} (retries used up
\* or body unparseable), or a body that is no mapping, on which .get raises.
ProfileAnswers == {"profile", "empty", "other"}

\* Lines 82-120: the value infer_user_country caches and returns for an answer.
InferredCountry(answer, location) ==
    IF answer = "profile" THEN InferFrom(location) ELSE "None"

\* The lookup is answered from the cache only when it holds a country.
CacheHitIfCountry(cache, u) == cache[u] \in {"IN", "US"}

\* Line 78: `username in _user_country_cache`.
CacheHit(cache, u) == cache[u] # "absent"

VARIABLES
    cLocation,   \* what each user's profile gives as location
    cCache,      \* _user_country_cache; "absent" for a username not in it
    cpc,         \* per caller: "idle" or "fetch" (awaiting _get)
    cUser,       \* per caller: the username of its current or last call
    cRet,        \* per caller: what its last call returned
    cReqs,       \* per caller: the requests its current or last call made
    cLate,       \* per caller: its call began after one for the same username ended
    cCompleted,  \* the usernames for which a call has ended
    cWrites,     \* per username: the values written to the cache for it
    cCalls       \* the calls begun

countryVars == <<cLocation, cCache, cpc, cUser, cRet, cReqs, cLate, cCompleted, cWrites,
                 cCalls>>

CountryInit ==
    /\ cLocation \in [Users -> Locations]
    /\ cCache = [u \in Users |-> "absent"]
    /\ cpc = [p \in Procs |-> "idle"]
    /\ cUser = [p \in Procs |-> ""]
    /\ cRet = [p \in Procs |-> "None"]
    /\ cReqs = [p \in Procs |-> 0]
    /\ cLate = [p \in Procs |-> FALSE]
    /\ cCompleted = {}
    /\ cWrites = [u \in Users |-> {}]
    /\ cCalls = 0

CountryIdle ==
    /\ cLocation = [u \in Users |-> ""]
    /\ cCache = [u \in Users |-> "absent"]
    /\ cpc = [p \in Procs |-> "idle"]
    /\ cUser = [p \in Procs |-> ""]
    /\ cRet = [p \in Procs |-> "None"]
    /\ cReqs = [p \in Procs |-> 0]
    /\ cLate = [p \in Procs |-> FALSE]
    /\ cCompleted = {}
    /\ cWrites = [u \in Users |-> {}]
    /\ cCalls = MaxCalls

\* Lines 75-79: an empty username returns None; a cached one returns the cached
\* value; any other goes on to the request.
CountryCall(p, u) ==
    /\ cpc[p] = "idle"
    /\ cCalls < MaxCalls
    /\ cCalls' = cCalls + 1
    /\ cUser' = [cUser EXCEPT ![p] = u]
    /\ cReqs' = [cReqs EXCEPT ![p] = 0]
    /\ cLate' = [cLate EXCEPT ![p] = u \in cCompleted]
    /\ IF u = ""
       THEN /\ cRet' = [cRet EXCEPT ![p] = "None"]
            /\ UNCHANGED <<cpc, cCompleted>>
       ELSE IF CacheHit(cCache, u)
       THEN /\ cRet' = [cRet EXCEPT ![p] = cCache[u]]
            /\ cCompleted' = cCompleted \cup {u}
            /\ UNCHANGED cpc
       ELSE /\ cpc' = [cpc EXCEPT ![p] = "fetch"]
            /\ UNCHANGED <<cRet, cCompleted>>
    /\ UNCHANGED <<cLocation, cCache, cWrites>>

\* Lines 81-120: _get(client, url, retries=2) has answered after 1 or 2 requests;
\* the inferred value is cached and returned with no await in between.
CountryFetch(p) ==
    /\ cpc[p] = "fetch"
    /\ \E answer \in ProfileAnswers, n \in 1..UserRetries :
         LET u == cUser[p]
             c == InferredCountry(answer, cLocation[u])
         IN  /\ cCache' = [cCache EXCEPT ![u] = c]
             /\ cWrites' = [cWrites EXCEPT ![u] = @ \cup {c}]
             /\ cRet' = [cRet EXCEPT ![p] = c]
             /\ cReqs' = [cReqs EXCEPT ![p] = n]
             /\ cCompleted' = cCompleted \cup {u}
    /\ cpc' = [cpc EXCEPT ![p] = "idle"]
    /\ UNCHANGED <<cLocation, cUser, cLate, cCalls>>

CountryNext ==
    \E p \in Procs :
        \/ \E u \in Usernames : CountryCall(p, u)
        \/ CountryFetch(p)

(* ------------------------------------------------------------------ *)
(* Grouping and scoring run twice over the same raw evidence           *)
(* ------------------------------------------------------------------ *)
\* The second run scores with other weights than the first.
RunWeightsDrifting(n) == IF n = 1 THEN DefaultWeights ELSE HeavyWeights

\* ingest.py line 122: aggregate_workflow is called without weights, so every
\* run scores with the default ones.
RunWeights(n) == DefaultWeights

\* A timestamp and an item seen `days` later: decay_multiplier reads the clock
\* at the call (score.py line 15).
AgedTs(ts, days) == IF ts.tag \in {"iso", "naive"} THEN [ts EXCEPT !.n = @ + days] ELSE ts
Aged(item, days) ==
    [item EXCEPT !.metrics.published_at = AgedTs(@, days),
                 !.metrics.first_post_ts = AgedTs(@, days)]

\* ingest.py lines 103-179: the raw items are grouped and one record is built
\* for each group, in the order of the groups. `base` numbers the uuids
\* group_evidence draws, `id0` those of the records.
BuildCanonical(items, n, base, id0, now) ==
    LET g == GroupEvidence(items, base)
        Rec(k) ==
            LET evidence == g.groups[g.keys[k]] IN
            CanonicalItem(evidence, AggregateWorkflow(evidence, RunWeights(n)),
                          id0 + k, now)
    IN  [k \in 1..Len(g.keys) |-> Rec(k)]

VARIABLES
    rRaw,    \* the raw evidence both runs read
    rLater,  \* days between the first run and the second
    rpc,     \* "first", "second" or "done"
    rOut1,   \* the records of the first run
    rOut2    \* the records of the second run

rerunVars == <<rRaw, rLater, rpc, rOut1, rOut2>>

\* Items that share a title, an item of another title, one with neither title
\* nor source_id, and an item of the Trends collector.
RerunItems ==
    {ScoreItem(IntV(1000), IntV(5000), NoneV, IntV(5000), IsoTs(HalfLifeDays)),
     ScoreItem(IntV(0), NoneV, NoneV, NoneV, BadTs),
     EvItem("Discourse", Str(<<"y">>), Str(<<"b">>), NoneS, NoneS,
            Metrics(IntV(1000), NoneV, NoneV, IntV(10), NoneV, NoTs, IsoTs(0), NoneS, NoIot)),
     EvItem("Discourse", NoneS, NoneS, NoneS, NoneS,
            Metrics(IntV(2000000000), IntV(5000), NoneV, NoneV, NoneV,
                    IsoTs(0 - HalfLifeDays), NoTs, NoneS, NoIot)),
     TrendsItem(1, <<10, 90>>)}

RerunInit ==
    /\ rRaw \in SeqsUpTo(RerunItems, MaxRaw)
    /\ rLater \in {0, HalfLifeDays}
    /\ rpc = "first"
    /\ rOut1 = <<>>
    /\ rOut2 = <<>>

RerunIdle ==
    /\ rRaw = <<>>
    /\ rLater = 0
    /\ rpc = "done"
    /\ rOut1 = <<>>
    /\ rOut2 = <<>>

\* The first run.
RerunFirst ==
    /\ rpc = "first"
    /\ rOut1' = BuildCanonical(rRaw, 1, 0, 0, RunTime)
    /\ rpc' = "second"
    /\ UNCHANGED <<rRaw, rLater, rOut2>>

\* The second run, over the same raw evidence, rLater days later: it draws new
\* uuids and reads the clock again.
RerunSecond ==
    /\ rpc = "second"
    /\ rOut2' = BuildCanonical([i \in 1..Len(rRaw) |-> Aged(rRaw[i], rLater)], 2,
                               Len(rRaw), Len(rOut1), RunTime + rLater)
    /\ rpc' = "done"
    /\ UNCHANGED <<rRaw, rLater, rOut1>>

RerunNext ==
    \/ RerunFirst
    \/ RerunSecond

(* ------------------------------------------------------------------ *)
(* Specifications                                                      *)
(* ------------------------------------------------------------------ *)
vars == <<fetchVars, videoVars, forumVars, scoreVars, ingestVars, groupVars, countryVars, trendsVars, rerunVars>>

FetchIdle ==
    /\ kind = [p \in Procs |-> "idle"]
    /\ retries = [p \in Procs |-> DefaultRetries]
    /\ script = [p \in Procs |-> <<>>]
    /\ attempt = [p \in Procs |-> 0]
    /\ backoff = [p \in Procs |-> 0]
    /\ slept = [p \in Procs |-> <<>>]
    /\ pc = [p \in Procs |-> "done"]
    /\ cause = [p \in Procs |-> "none"]
    /\ outcome = [p \in Procs |-> "none"]
    /\ nkeys = 0
    /\ keyIndex = 0
    /\ keyLock = 0
    /\ pkey = [p \in Procs |-> 0]
    /\ idx0 = 0
    /\ rateSeen = 0
    /\ gets = [p \in Procs |-> 1]

\* The Fetch Client alone.
InitFetch == FetchInit /\ VideoIdle /\ ForumIdle /\ ScoreIdle /\ IngestIdle /\ GroupIdle /\ CountryIdle /\ TrendsIdle /\ RerunIdle
NextFetch == FetchNext /\ UNCHANGED <<videoVars, forumVars, scoreVars, ingestVars, groupVars, countryVars, trendsVars, rerunVars>>
SpecFetch == InitFetch /\ [][NextFetch]_vars

\* One run of a collector's collect_seed_queries, the Video or the Forum one.
InitCollect ==
    /\ FetchIdle
    /\ RerunIdle
    /\ TrendsIdle
    /\ CountryIdle
    /\ GroupIdle
    /\ ScoreIdle
    /\ IngestIdle
    /\ \/ VideoInit /\ ForumIdle
       \/ VideoIdle /\ ForumInit
NextCollect ==
    \/ VideoNext /\ UNCHANGED <<fetchVars, forumVars, scoreVars, ingestVars, groupVars, countryVars, trendsVars, rerunVars>>
    \/ ForumNext /\ UNCHANGED <<fetchVars, videoVars, scoreVars, ingestVars, groupVars, countryVars, trendsVars, rerunVars>>
SpecCollect == InitCollect /\ [][NextCollect]_vars

\* aggregate_workflow applied to any list of evidence.
InitScore == FetchIdle /\ VideoIdle /\ ForumIdle /\ ScoreInit /\ IngestIdle /\ GroupIdle /\ CountryIdle /\ TrendsIdle /\ RerunIdle
NextScore == ScoreNext /\ UNCHANGED <<fetchVars, videoVars, forumVars, ingestVars, groupVars, countryVars, trendsVars, rerunVars>>
SpecScore == InitScore /\ [][NextScore]_vars

\* One run of run_ingest over any raw evidence file.
InitIngest == FetchIdle /\ VideoIdle /\ ForumIdle /\ ScoreIdle /\ IngestInit /\ GroupIdle /\ CountryIdle /\ TrendsIdle /\ RerunIdle
NextIngest == IngestNext /\ UNCHANGED <<fetchVars, videoVars, forumVars, scoreVars, groupVars, countryVars, trendsVars, rerunVars>>
SpecIngest == InitIngest /\ [][NextIngest]_vars

\* Runs of run_ingest one after the other over the same table and snapshot file.
InitStore == FetchIdle /\ VideoIdle /\ ForumIdle /\ ScoreIdle /\ StoreInit /\ GroupIdle /\ CountryIdle /\ TrendsIdle /\ RerunIdle
NextStore == StoreNext /\ UNCHANGED <<fetchVars, videoVars, forumVars, scoreVars, groupVars, countryVars, trendsVars, rerunVars>>
SpecStore == InitStore /\ [][NextStore]_vars

\* group_evidence on any list of items, and again on a permutation of it.
InitGroup == FetchIdle /\ VideoIdle /\ ForumIdle /\ ScoreIdle /\ IngestIdle /\ GroupInit /\ CountryIdle /\ TrendsIdle /\ RerunIdle
NextGroup == GroupNext /\ UNCHANGED <<fetchVars, videoVars, forumVars, scoreVars, ingestVars, countryVars, trendsVars, rerunVars>>
SpecGroup == InitGroup /\ [][NextGroup]_vars

\* Callers of infer_user_country sharing the cache.
InitCountry == FetchIdle /\ VideoIdle /\ ForumIdle /\ ScoreIdle /\ IngestIdle /\ GroupIdle /\ CountryInit /\ TrendsIdle /\ RerunIdle
NextCountry == CountryNext /\ UNCHANGED <<fetchVars, videoVars, forumVars, scoreVars, ingestVars, groupVars, trendsVars, rerunVars>>
SpecCountry == InitCountry /\ [][NextCountry]_vars

\* One call of collect_keyword_trends.
InitTrends == FetchIdle /\ VideoIdle /\ ForumIdle /\ ScoreIdle /\ IngestIdle /\ GroupIdle /\ CountryIdle /\ TrendsInit /\ RerunIdle
NextTrends == TrendsNext /\ UNCHANGED <<fetchVars, videoVars, forumVars, scoreVars, ingestVars, groupVars, countryVars, rerunVars>>
SpecTrends == InitTrends /\ [][NextTrends]_vars

\* The same call run to its end: the loops are synchronous code, every
\* iteration that can be taken is taken.
SpecTrendsLive == SpecTrends /\ WF_vars(NextTrends)

\* run_ingest's grouping and scoring, twice over the same raw evidence.
InitRerun == FetchIdle /\ VideoIdle /\ ForumIdle /\ ScoreIdle /\ IngestIdle /\ GroupIdle /\ CountryIdle /\ TrendsIdle /\ RerunInit
NextRerun == RerunNext /\ UNCHANGED <<fetchVars, videoVars, forumVars, scoreVars, ingestVars, groupVars, countryVars, trendsVars>>
SpecRerun == InitRerun /\ [][NextRerun]_vars

(* ================================================================== *)
(* Claims about the Fetch Client (SpecFetch)                           *)
(* ================================================================== *)
Active(p) == kind[p] # "idle"
Returned(p) == Active(p) /\ pc[p] = "done"
\* The answer to the request the call issued last.
LastAnswer(p) == script[p][attempt[p]]

\* C1: with the default retry cap, three consecutive 429 answers followed by an
\* answer of 200 make the call return the parsed body of the 200 response.
C1_ThreeRateLimitsThen200 ==
    \A p \in Procs :
        (Returned(p) /\ retries[p] = DefaultRetries
            /\ script[p] = <<"429", "429", "429", "200ok">>)
        => outcome[p] = "body"

\* C2: when the server answers only 429/503 and transport errors, the call issues
\* at most maxRetries requests and then returns an empty result; it never raises.
C2_TransientOnlyGivesEmpty ==
    \A p \in Procs :
        (Active(p) /\ \A i \in 1..Len(script[p]) : script[p][i] \in {"429", "503", "err"})
        => /\ attempt[p] <= retries[p]
           /\ outcome[p] # "raised"
           /\ (pc[p] = "done" => outcome[p] = "empty")

\* C3: an answer with a status other than 200 and other than a rate-limit status
\* (404, 500) ends the call at once with a raised failure: no retry, no empty result.
C3_OtherStatusRaisesAtOnce ==
    \A p \in Procs :
        (Active(p) /\ attempt[p] >= 1 /\ LastAnswer(p) \in {"404", "500"})
        => (pc[p] = "done" /\ outcome[p] = "raised")

\* C4: a 200 answer whose body cannot be parsed makes the call return an empty
\* result and raise nothing, in the Forum and in the Video client.
C4_UnparseableBodyGivesEmpty ==
    \A p \in Procs :
        (Active(p) /\ attempt[p] >= 1 /\ LastAnswer(p) = "200bad")
        => (pc[p] = "done" /\ outcome[p] = "empty")

\* Rate-limit answers received whose rotation has not been carried out yet.
PendingRotations == Cardinality({p \in Procs : pc[p] \in {"lock", "rotate"}})

C5_CursorInv ==
    nkeys > 0 =>
        /\ keyIndex \in 0..(nkeys - 1)
        /\ keyIndex = (idx0 + rateSeen - PendingRotations) % nkeys

\* C5: the key cursor changes only inside the lock; every 429/403 answer advances
\* it by exactly one position modulo the pool size, so after k such answers it is
\* (initial + k) mod pool size, and it always indexes an entry of the pool.
C5_CursorRotatesUnderLock ==
    /\ []C5_CursorInv
    /\ [][keyIndex' # keyIndex =>
            /\ keyLock # 0
            /\ pc[keyLock] = "rotate"
            /\ keyIndex' = (keyIndex + 1) % nkeys]_vars

\* Two concurrent calls have both rotated a pool of several keys, one of them
\* more than once, and no rotation is pending.
C5_Witness ==
    /\ nkeys = MaxKeys
    /\ \A p \in Procs : kind[p] = "video" /\ Len(slept[p]) >= 1 /\ pkey[p] \in 0..(nkeys - 1)
    /\ rateSeen >= NumProcs + 1
    /\ PendingRotations = 0
    /\ keyIndex = (idx0 + rateSeen) % nkeys

(* ================================================================== *)
(* Claims about the collectors (SpecCollect)                           *)
(* ================================================================== *)
\* C6: whenever no credential is configured or the structured search of a query
\* has failed, the rendered results page of that query has been fetched before
\* the query ends without items.
C6_RenderedPageBeforeEmpty ==
    \A q \in Queries :
        (vpc[q] \in {"done", "failed"} /\ (~vHasKey \/ vpc[q] = "failed"))
        => vhtml[q]

\* C7: a topic that search_topics leaves out because its detail request returned
\* nothing has had its rendered page fetched first.
C7_EntityPageBeforeDrop == fDropped \subseteq fEntityPages

\* The items of query q in the Video result, in order.
VideoResultOf(q) == SelectSeq(vAll, LAMBDA it : it.q = q)

\* C8: collect_seed_queries returns without raising whatever subset of the
\* queries fails, and its result holds the items of every query that did not
\* fail: for the Video collector each such query's items, in order; for the Forum
\* collector (which de-duplicates) every source id such a call returned.
C8_FailuresAreIsolated ==
    /\ vOutcome # "raised" /\ fOutcome # "raised"
    /\ vOutcome = "returned" =>
        \A q \in Queries : vpc[q] = "done" => VideoResultOf(q) = vitems[q]
    /\ fOutcome = "returned" => fProduced \subseteq Sids(fuq)

\* A Video run has returned although a query failed, with the items of another.
C8_Witness ==
    /\ vOutcome = "returned"
    /\ \E q \in Queries : vpc[q] = "failed"
    /\ \E q \in Queries : vpc[q] = "done" /\ vitems[q] # <<>> /\ VideoResultOf(q) = vitems[q]

\* C13: collect_recent_topics returns no two items with the same source_id,
\* whether an entity appears in the JSON list endpoint, on one rendered listing
\* page or on several rendered listing pages.
C13_RecentNoDuplicates ==
    \A i, j \in 1..Len(rres) : rres[i].sid = rres[j].sid => i = j

\* The positions of `items` at which a source_id occurs for the first time.
FirstSeen(items) ==
    {i \in 1..Len(items) : \A j \in 1..(i - 1) : items[j].sid # items[i].sid}

C15_VideoNoDuplicates ==
    vOutcome = "returned" =>
        \A i, j \in 1..Len(vAll) : vAll[i].sid = vAll[j].sid => i = j

(* ================================================================== *)
(* Claims about the scoring engine (SpecScore)                         *)
(* ================================================================== *)
\* C9: for any well-formed evidence (the empty list, views that are zero or
\* missing, very large counts among them) aggregate_workflow returns, and the
\* popularity_score it returns lies between 0 and 1.
C9_ScoreInUnitInterval ==
    sDone => /\ ~sResult.err
             /\ sResult.popularity_score >= 0
             /\ sResult.popularity_score <= SCALE

\* A call on very large counts with a timestamp in the future has returned 1.
C9_Witness ==
    /\ sDone
    /\ \E i \in 1..Len(sEvidence) :
         /\ sEvidence[i].metrics.views = IntV(2000000000)
         /\ sEvidence[i].metrics.published_at = IsoTs(0 - 60)
    /\ sResult.popularity_score = SCALE

(* ================================================================== *)
(* Claims about the ingest run (SpecIngest)                            *)
(* ================================================================== *)
\* The numeric value of a stored metric, 0 when it is missing or no number.
NumericOrZero(v) == IF v.tag = "int" THEN v.n ELSE 0

\* The members of the k-th group of the raw evidence.
MembersOfGroup(k) == GroupMembers(raw, GroupKeys(raw)[k])

\* C10: for every group the ingest run completes, and the record's total views
\* (likes and comments likewise) is the sum of the members' numeric values, a
\* missing or non-numeric value such as "bad" counting as 0 without raising.
C10_TotalsCountBadAsZero ==
    /\ iError # "TypeError"
    /\ \A k \in 1..Len(canonical) :
         LET ev == MembersOfGroup(k) IN
         /\ canonical[k].popularity_metrics.views =
                SumSeq([i \in 1..Len(ev) |-> NumericOrZero(ev[i].metrics.views)])
         /\ canonical[k].popularity_metrics.likes =
                SumSeq([i \in 1..Len(ev) |-> NumericOrZero(ev[i].metrics.likes)])
         /\ canonical[k].popularity_metrics.comments =
                SumSeq([i \in 1..Len(ev) |->
                    IF ev[i].metrics.comments.tag = "none"
                    THEN NumericOrZero(ev[i].metrics.replies)
                    ELSE NumericOrZero(ev[i].metrics.comments)])

(* ================================================================== *)
(* Claims about group_evidence (SpecGroup)                             *)
(* ================================================================== *)
\* The title (or keyword) of the item normalizes to the empty string.
EmptyTitle(it) == normalize_title(TitleOf(it)) = <<>>

\* C11: after group_evidence, every item whose normalized title (or keyword) is
\* empty is the only member of its group: it is grouped neither with an item
\* that has a non-empty title nor with another empty-title item.
C11_EmptyTitleAlone ==
    gpc # "first" =>
        \A k \in DOMAIN gFirst.groups :
            (\E i \in 1..Len(gFirst.groups[k]) : EmptyTitle(gFirst.groups[k][i]))
                => Len(gFirst.groups[k]) = 1

\* C12: group_evidence is deterministic and order-independent: two items with
\* equal titles get the same key, and the results for a list and for any
\* permutation of it have the same set of keys with the same set of items
\* under each key.
C12_OrderIndependent ==
    /\ gpc # "first" =>
          \A i, j \in 1..Len(gItems) :
              (TitleOf(gItems[i]) = TitleOf(gItems[j]) /\ ~EmptyTitle(gItems[i]))
                  => \E k \in DOMAIN gFirst.groups :
                        {gItems[i], gItems[j]} \subseteq Range(gFirst.groups[k])
    /\ gpc = "done" =>
          /\ Range(gFirst.keys) = Range(gSecond.keys)
          /\ \A k \in DOMAIN gFirst.groups \cap DOMAIN gSecond.groups :
                Range(gFirst.groups[k]) = Range(gSecond.groups[k])

\* The positions of the input whose item gets key k.
PositionsOfKey(k) ==
    LET ks == KeysOfCall(gItems, 0) IN {i \in 1..Len(gItems) : ks[i] = k}

\* C31: after group_evidence, every input item is in exactly one group, and the
\* sequence of each group is the subsequence of the input made of the items
\* with that key, in input (arrival) order.
C31_GroupsPartitionInOrder ==
    gpc # "first" =>
        /\ \A i \in 1..Len(gItems) :
             Cardinality({k \in DOMAIN gFirst.groups : i \in PositionsOfKey(k)}) = 1
        /\ \A k \in DOMAIN gFirst.groups :
             LET idx == PositionsOfKey(k) IN
             /\ Len(gFirst.groups[k]) = Cardinality(idx)
             /\ \A a \in idx :
                  gFirst.groups[k][Cardinality({i \in idx : i <= a})] = gItems[a]

\* Three items were grouped: two different items under one key, in their input
\* order with the third item between them, which is a group of its own.
C31_Witness ==
    /\ gpc # "first"
    /\ Len(gItems) = 3
    /\ gItems[1] # gItems[3]
    /\ \E k \in DOMAIN gFirst.groups : gFirst.groups[k] = <<gItems[1], gItems[3]>>
    /\ \E k \in DOMAIN gFirst.groups : gFirst.groups[k] = <<gItems[2]>>

\* The source_ids of the two items are region variants of one base.
RegionVariants(a, b) ==
    {a.source_id, b.source_id} = {Str(SidUS), Str(SidIN)}

\* The two items are members of one group.
SameGroup(a, b) == \E k \in DOMAIN gFirst.groups : {a, b} \subseteq Range(gFirst.groups[k])

\* C32: two evidence items whose source_ids are region variants of the same
\* base (base::US and base::IN) are in the same group only if their normalized
\* titles (or keywords, for an item without title) are equal and non-empty;
\* otherwise they are in distinct groups.
C32_RegionVariantsApart ==
    gpc # "first" =>
        \A i, j \in 1..Len(gItems) :
            (RegionVariants(gItems[i], gItems[j]) /\ SameGroup(gItems[i], gItems[j]))
                => /\ ~EmptyTitle(gItems[i])
                   /\ normalize_title(TitleOf(gItems[i])) = normalize_title(TitleOf(gItems[j]))

\* Region variants were grouped: two whose titles differ and normalize to the
\* same text are in one group, and a third of another title is in another.
C32_Witness ==
    /\ gpc # "first"
    /\ \E i, j, l \in 1..Len(gItems) :
         /\ RegionVariants(gItems[i], gItems[j])
         /\ TitleOf(gItems[i]) # TitleOf(gItems[j])
         /\ SameGroup(gItems[i], gItems[j])
         /\ RegionVariants(gItems[i], gItems[l])
         /\ ~EmptyTitle(gItems[l])
         /\ ~SameGroup(gItems[i], gItems[l])

(* ================================================================== *)
(* Claims about infer_user_country (SpecCountry)                       *)
(* ================================================================== *)
\* C16: once infer_user_country has completed for a username (with a country or
\* with no country), every later call for that username performs no network
\* request and returns the value stored in the cache.
C16_LaterCallsUseCache ==
    \A p \in Procs :
        cLate[p] =>
            /\ cpc[p] = "idle"
            /\ cReqs[p] = 0
            /\ cRet[p] \in cWrites[cUser[p]]

\* A call made after an earlier one ended without a country has returned that
\* answer from the cache.
C16_Witness ==
    \E p \in Procs :
        /\ cLate[p]
        /\ cpc[p] = "idle"
        /\ cCache[cUser[p]] = "None"
        /\ cRet[p] = "None"
        /\ cReqs[p] = 0

\* C17: when several inferences for the same username run concurrently, every
\* lookup writes the same value to the cache, so the value left there does not
\* depend on the interleaving, also when a lookup meets a transient failure.
C17_SameValueWritten ==
    \A u \in Users : Cardinality(cWrites[u]) <= 1

(* ================================================================== *)
(* Claims about the storage over several runs (SpecStore)              *)
(* ================================================================== *)
\* The table holds at most one row per source_id.
C18_OneRowPerSourceId ==
    \A r1, r2 \in db : r1.source_id = r2.source_id => r1 = r2

\* The step in which upsert_to_db commits.
UpsertCommits == upsertOk = "none" /\ upsertOk' = "ok"

\* The last record of the run that carries the source_id of row r.
LastRecordFor(r) ==
    canonical[CHOOSE k \in 1..Len(canonical) :
        /\ canonical[k].source_id = r.source_id
        /\ \A j \in (k + 1)..Len(canonical) : canonical[j].source_id # r.source_id]

\* C18: after any sequence of successful ingest runs the storage holds at most
\* one record per source_id; an upsert whose source_id already exists replaces
\* every column of that record by the new run's value (no merge with the old
\* values) and leaves its id unchanged.
C18_UpsertOverwritesInPlace ==
    /\ []C18_OneRowPerSourceId
    /\ [][UpsertCommits =>
            \A r \in db :
                IF \E k \in 1..Len(canonical) : canonical[k].source_id = r.source_id
                THEN [LastRecordFor(r) EXCEPT !.id = r.id] \in db'
                ELSE r \in db']_vars

\* A row written by the first run carries the values of the second run under
\* the id of the first.
C18_Witness ==
    /\ upsertOk = "ok"
    /\ \E r \in db :
          /\ r.id = 1
          /\ r.last_updated = RunTime + 1
          /\ r.popularity_metrics.views = 100
          /\ r.evidence_count = 2

\* C19: run_ingest writes the canonical snapshot file only after the storage
\* upsert of that run has been attempted and has failed, and the fallback is
\* enabled, never when the upsert succeeded; the file then holds exactly the
\* canonical records of that run and none of its earlier content.
C19_FileOnlyAfterFailedUpsert ==
    [][canonFile' # canonFile =>
            /\ upsertOk = "failed"
            /\ upsertOk' = "failed"
            /\ writeFallback
            /\ canonFile'.present
            /\ canonFile'.recs = canonical]_vars

\* The second run, after a first one that built records, has written its own
\* records to the file, its upsert having failed.
C19_Witness ==
    /\ runs = 2
    /\ ipc = "done"
    /\ upsertOk = "failed"
    /\ nextId > Len(canonical) + 1
    /\ Len(canonical) = 2
    /\ canonFile.recs = canonical

\* C20: when the storage upsert fails and the file fallback also fails to store
\* the records, run_ingest surfaces the run to its caller as failed: it does not
\* return as it does after a successful run.
C20_DoubleFailureSurfaces ==
    (ipc = "done" /\ upsertOk = "failed" /\ writeFallback /\ ~fileWritable)
        => iError # "none"

\* A run has ended with the exception of the failed write, the table and the
\* file left as they were.
C20_Witness ==
    /\ ipc = "done"
    /\ upsertOk = "failed"
    /\ canonical # <<>>
    /\ iError = "OSError"
    /\ ~canonFile.present

\* C21: when the raw evidence file is missing, run_ingest returns without
\* raising and leaves both the storage and the canonical snapshot file
\* unchanged.
C21_MissingRawLeavesAllUnchanged ==
    /\ [](~rawExists => (ipc \in {"start", "done"} /\ iError = "none"))
    /\ [][(~rawExists /\ ipc = "start") =>
            /\ ipc' = "done"
            /\ iError' = "none"
            /\ db' = db
            /\ canonFile' = canonFile]_vars

\* A run without raw file has returned, the table of the earlier run as it was.
C21_Witness ==
    /\ ~rawExists
    /\ ipc = "done"
    /\ runs = 2
    /\ db # EmptyDb
    /\ upsertOk = "none"

\* How often x occurs in the sequence s.
Votes(s, x) == Cardinality({i \in 1..Len(s) : s[i] = x})

\* The metrics.country values of the members of the k-th group that are not null.
CountriesOfGroup(k) ==
    LET ev == MembersOfGroup(k) IN
    SelectSeq([i \in 1..Len(ev) |-> ev[i].metrics.country], TruthyS)

\* C22: for every group, the record's country is the most frequent non-null
\* metrics.country among its evidence when one country has a majority, and null
\* when no evidence has a country or when no country has a majority (e.g. one
\* US item and one IN item).
C22_CountryByMajority ==
    \A k \in 1..Len(canonical) :
        LET cs == CountriesOfGroup(k) IN
        /\ cs = <<>> => canonical[k].country = NoneS
        /\ \A c \in Range(cs) :
             2 * Votes(cs, c) > Len(cs) => canonical[k].country = c
        /\ (cs # <<>> /\ \A c \in Range(cs) : 2 * Votes(cs, c) <= Len(cs))
             => canonical[k].country = NoneS

\* The platforms the members of the k-th group carry, in evidence order.
PlatformsOfGroup(k) ==
    LET ev == MembersOfGroup(k)
        Carried(p) == p # ""
    IN  SelectSeq([i \in 1..Len(ev) |-> ev[i].platform], Carried)

\* C23: for every group, the record's platform is the most frequent platform
\* among its evidence, the one encountered first in evidence order when several
\* platforms tie, and "mixed" when no evidence item carries a platform.
C23_PlatformMostFrequent ==
    \A k \in 1..Len(canonical) :
        LET ps == PlatformsOfGroup(k)
            p == canonical[k].platform
        IN  IF ps = <<>> THEN p = "mixed"
            ELSE /\ p \in Range(ps)
                 /\ \A q \in Range(ps) : Votes(ps, p) >= Votes(ps, q)
                 /\ \A i \in 1..Len(ps) :
                      Votes(ps, ps[i]) = Votes(ps, p) => \E j \in 1..i : ps[j] = p

\* A record built from a Discourse item followed by a YouTube item and one
\* without platform has the platform met first.
C23_Witness ==
    \E k \in 1..Len(canonical) :
        /\ PlatformsOfGroup(k) = <<"Discourse", "YouTube">>
        /\ canonical[k].platform = "Discourse"
        /\ Len(MembersOfGroup(k)) = 3

(* ================================================================== *)
(* Claims about the Trends collector (SpecTrends, SpecTrendsLive)      *)
(* ================================================================== *)
\* The pair an item of the results was collected for.
PairOfItem(item) ==
    CHOOSE p \in Pairs : item.source_id = Str(<<"trends", PairAt(p).kw, PairAt(p).geo>>)

\* C24: in collect_keyword_trends a (query, region) pair whose interest series is
\* empty adds no item to the result and raises nothing, and all remaining pairs
\* are still processed: the attempt that meets the empty series leaves the
\* results as they are and passes to the next pair, no item of the results
\* belongs to such a pair, and the call returns only when every pair has ended.
C24_EmptySeriesAddsNothing ==
    /\ [][(tTries' # tTries /\ tLast' = "empty") =>
            /\ tResults' = tResults
            /\ ~tRaised'
            /\ tpc' = "loop"
            /\ tPair' = tPair + 1]_vars
    /\ [](\A i \in 1..Len(tResults) : tEnd[PairOfItem(tResults[i])] = "item")
    /\ [](tpc = "done" => /\ ~tRaised
                          /\ \A p \in Pairs : tEnd[p] # "pending")

\* The call has returned: the first pair had no data, the second gave the one
\* item of the results.
C24_Witness ==
    /\ tpc = "done"
    /\ tEnd[1] = "empty"
    /\ tEnd[2] = "item"
    /\ Len(tResults) = 1
    /\ PairOfItem(tResults[1]) = 2

\* The items of the results collected for pair p.
ItemsOfPair(p) == {i \in 1..Len(tResults) : PairOfItem(tResults[i]) = p}

\* C25: for each (query, region) pair collect_keyword_trends makes at most 4
\* attempts; an attempt is repeated only after a rate-limit error, after a sleep
\* of the backoff, which doubles from 5 s; any other error ends the pair at
\* once; the pair contributes at most one item; and the whole call terminates
\* without raising.
C25_BoundedAttemptsAndTermination ==
    /\ [](\A p \in Pairs : /\ tTries[p] <= TrendsAttempts
                           /\ Cardinality(ItemsOfPair(p)) <= 1)
    /\ [][\A p \in Pairs :
            (tTries'[p] # tTries[p] /\ tTries[p] >= 1) =>
                /\ tLast = "rate"
                /\ tSlept = TrendsBackoff0 * Pow2(tTries[p] - 1)]_vars
    /\ [][(tTries' # tTries /\ tLast' = "other") =>
            /\ tPair' = tPair + 1
            /\ tResults' = tResults]_vars
    /\ [](~tRaised)
    /\ <>(tpc = "done")

\* The call has returned after four rate-limited attempts for the first pair,
\* the last sleep being of 40 s, and an error of another kind for the second.
C25_Witness ==
    /\ tpc = "done"
    /\ tTries[1] = TrendsAttempts
    /\ tEnd[1] = "exhausted"
    /\ tSlept = 8 * TrendsBackoff0
    /\ tEnd[2] = "other"
    /\ tTries[2] = 1
    /\ tResults = <<>>

(* ================================================================== *)
(* Claims about compute_item_scores (SpecScore)                        *)
(* ================================================================== *)
\* C26: for every evidence item compute_item_scores returns V, E and T in [0,1]
\* and D in (0,1], also when the recency timestamp lies in the future or cannot
\* be parsed.
C26_ComponentsInRange ==
    \A i \in 1..Len(sComps) :
        ~sComps[i].err =>
            /\ sComps[i].V >= 0 /\ sComps[i].V <= SCALE
            /\ sComps[i].E >= 0 /\ sComps[i].E <= SCALE
            /\ sComps[i].T >= 0 /\ sComps[i].T <= SCALE
            /\ sComps[i].D > 0 /\ sComps[i].D <= SCALE

\* The views compute_item_scores starts from are missing, null or 0, and the
\* item is no trend item, whose volume is its interest series.
NoViews(item) == ~IsTrend(item) /\ item.metrics.views \in {NoneV, IntV(0)}

\* C27: for an item whose views are missing, null or 0, compute_item_scores does
\* not divide by the views: it returns E = 0 and V = 0 without raising, also
\* when the likes are no number, and aggregate_workflow over a group that
\* contains such an item completes.
C27_NoViewsNoDivision ==
    sDone =>
        /\ \A i \in 1..Len(sEvidence) :
             NoViews(sEvidence[i]) =>
                /\ ~sComps[i].err
                /\ sComps[i].V = 0
                /\ sComps[i].E = 0
        /\ (\E i \in 1..Len(sEvidence) : NoViews(sEvidence[i])) => ~sResult.err

\* aggregate_workflow has returned for a group of an item with 1000 views and
\* an item with 0 views whose likes are no number.
C27_Witness ==
    /\ sDone
    /\ Len(sEvidence) = 2
    /\ sEvidence[1].metrics.views = IntV(1000)
    /\ sEvidence[2].metrics.views = IntV(0)
    /\ sEvidence[2].metrics.likes = StrV
    /\ sComps[2].V = 0 /\ sComps[2].E = 0
    /\ sComps[1].V > 0
    /\ ~sResult.err

\* The interest-over-time series of a trend item for its keyword: the values of
\* the flat shape, the keyword's column of the nested one.
KeywordSeries(item) == item.metrics.interest_over_time.cols[1]

\* C28: for a trend item the volume fed into V is the arithmetic mean of all the
\* values of the item's interest-over-time series for its keyword, for the flat
\* shape and for the nested one the Trends collector produces.
C28_TrendVolumeIsSeriesMean ==
    \A i \in 1..Len(sComps) :
        (IsTrend(sEvidence[i]) /\ ~sComps[i].err) =>
            LET series == KeywordSeries(sEvidence[i])
                mean == SumSeq(series) \div Len(series)
            IN  sComps[i].V = Clamp01(Log1pNorm(mean) \div VScaleDiv)

\* The recency timestamp compute_item_scores uses (line 66).
RecencyOf(item) ==
    IF TruthyTs(item.metrics.published_at) THEN item.metrics.published_at
    ELSE item.metrics.first_post_ts

\* C29: the decay multiplier follows D = 2^(-age_days / half_life_days) with a
\* half-life of 30 days: an item published a whole number k of half-lives ago
\* gets D = 1/2^k (0.5 after one half-life, 0.25 after two), and an item with no
\* timestamp gets exactly 1.0.
C29_HalfLifeDecay ==
    /\ HalfLifeDays = 30
    /\ \A i \in 1..Len(sComps) :
         LET pub == RecencyOf(sEvidence[i]) IN
         /\ pub = NoTs => sComps[i].D = SCALE
         /\ (pub.tag = "iso" /\ pub.n >= 0 /\ pub.n % HalfLifeDays = 0) =>
                sComps[i].D * Pow2(pub.n \div HalfLifeDays) = SCALE

\* Scored together: an item published one half-life ago with D = 0.5 and an
\* item published two half-lives ago with D = 0.25.
C29_Witness ==
    /\ sDone
    /\ Len(sComps) = 2
    /\ RecencyOf(sEvidence[1]) = IsoTs(HalfLifeDays)
    /\ sComps[1].D * 2 = SCALE
    /\ RecencyOf(sEvidence[2]) = IsoTs(2 * HalfLifeDays)
    /\ sComps[2].D * 4 = SCALE

EvidenceItemFields == {"platform", "source_id", "source_url", "title", "metrics", "scrape_ts"}

\* C33: every item emitted by every collector, on every path, has the same
\* EvidenceItem shape: its top-level fields are platform, source_id,
\* source_url, title, metrics and scrape_ts, and a country appears only inside
\* metrics. Stated for the items collect_keyword_trends returns.
C33_UniformItemShape ==
    \A i \in 1..Len(tResults) :
        /\ TrendsItemFields = EvidenceItemFields
        /\ tResults[i].country = NoneS
        /\ tResults[i].keyword = NoneS

(* ================================================================== *)
(* Claims about the backoff of the Fetch Client (SpecFetch)            *)
(* ================================================================== *)
\* C34: within one get call the delay slept before a retry starts at the base
\* delay and doubles (with a jitter below 1 s) after each failed attempt until
\* it reaches the cap, 10 s in the Forum _get; no delay ever exceeds the cap,
\* for any maxRetries and any mix of rate-limit responses and transport
\* errors. Stated for the Forum _get.
C34_BackoffDoublesToCap ==
    \A p \in Procs :
        kind[p] = "forum" =>
            \A i \in 1..Len(slept[p]) :
                /\ i = 1 => slept[p][i] = ForumBackoff0
                /\ i > 1 => /\ slept[p][i] >= Min(ForumBackoffCap, 2 * slept[p][i - 1])
                            /\ slept[p][i] <= Min(ForumBackoffCap, 2 * slept[p][i - 1] + 9)
                /\ slept[p][i] <= ForumBackoffCap

(* ================================================================== *)
(* Claims about the credentials of the Video requests (SpecFetch)      *)
(* ================================================================== *)
\* C35: with a pool of at least two credentials, a Video request rejected with
\* 429/403 is retried with a credential different from the one that was just
\* rejected, for every interleaving of concurrent requests that rotate the
\* shared cursor: the rotation gives the call another credential than the one
\* its rejected request carried.
C35_RetryWithOtherCredential ==
    [][\A p \in Procs :
          (nkeys >= 2 /\ pc[p] = "rotate" /\ pc'[p] = "sleep") => pkey'[p] # pkey[p]]_vars

\* C36: after a credential rotation, every later structured request issued by
\* the same search_videos call (the statistics batches and the following
\* search pages) carries the credential the shared cursor selects at that
\* time, not the credential read when the call started.
C36_LaterRequestsFollowCursor ==
    \A p \in Procs :
        (kind[p] = "video" /\ gets[p] > 1 /\ attempt[p] = 0 /\ pc[p] = "request"
            /\ rateSeen > 0)
            => pkey[p] = keyIndex

(* ================================================================== *)
(* Claims about the failed upsert (SpecStore)                          *)
(* ================================================================== *)
\* A record of the run cannot be written: its source_id is null.
HasUnwritableRecord == \E i \in 1..Len(canonical) : canonical[i].source_id = NoneS

\* C37: upsert_to_db is all-or-nothing: if writing any record of the run fails
\* (a record whose source_id is null), no record of that run remains in
\* storage, the function returns failure instead of raising, and run_ingest
\* then writes all records of the run to the file fallback (which is enabled
\* by default, when the file can be written).
C37_UpsertAllOrNothing ==
    /\ [][(ipc = "build" /\ upsertOk' # upsertOk /\ HasUnwritableRecord) =>
            /\ db' = db
            /\ upsertOk' = "failed"
            /\ iError' = "none"
            /\ ipc' = "fallback"]_vars
    /\ [][(ipc = "fallback" /\ ipc' # ipc /\ writeFallback /\ fileWritable) =>
            /\ canonFile' = [present |-> TRUE, recs |-> canonical]
            /\ iError' = "none"
            /\ ipc' = "done"]_vars

\* A first run against a reachable database has ended: its second record has
\* no source_id, the table holds nothing, the file holds both records.
C37_Witness ==
    /\ runs = 1
    /\ ipc = "done"
    /\ engineUp
    /\ Len(canonical) = 2
    /\ canonical[1].source_id # NoneS
    /\ canonical[2].source_id = NoneS
    /\ upsertOk = "failed"
    /\ db = EmptyDb
    /\ canonFile.present /\ canonFile.recs = canonical
    /\ iError = "none"

(* ================================================================== *)
(* Claims about the country of the records (SpecIngest)                *)
(* ================================================================== *)
\* The country an evidence item carries: Video and Forum items in
\* metrics.country, Trends items in their top-level country field.
CarriedCountry(item) ==
    IF IsTrend(item) THEN item.country ELSE item.metrics.country

\* C38: a canonical record built from evidence whose items all carry the same
\* known country has that country and not null, whichever collector produced
\* the items.
C38_SharedCountryIsKept ==
    \A k \in 1..Len(canonical) :
        LET ev == MembersOfGroup(k) IN
        \A c \in {CarriedCountry(ev[i]) : i \in 1..Len(ev)} :
            (TruthyS(c) /\ \A i \in 1..Len(ev) : CarriedCountry(ev[i]) = c)
                => canonical[k].country = c

(* ================================================================== *)
(* Claims about the neutral trend component (SpecScore)                *)
(* ================================================================== *)
\* An item with no growth metric.
NoGrowth(item) == item.metrics.growth_pct_30d = NoneV

\* An item with no views, no engagement, no growth and no timestamp.
NoSignal(item) ==
    /\ ~IsTrend(item)
    /\ item.metrics.views \in {NoneV, IntV(0)}
    /\ item.metrics.likes \in {NoneV, IntV(0)}
    /\ item.metrics.comments \in {NoneV, IntV(0)}
    /\ item.metrics.replies \in {NoneV, IntV(0)}
    /\ NoGrowth(item)
    /\ item.metrics.published_at = NoTs
    /\ item.metrics.first_post_ts = NoTs

\* C39: an evidence item with no growth metric gets T = 0.5; with the default
\* weights a non-empty group whose items have no views, no engagement and no
\* timestamp gets popularity_score 0.2 x 0.5 = 0.1; an empty evidence list gets
\* V = E = T = 0, D = 1 and popularity_score 0.
C39_NeutralTrendAndEmptyList ==
    sDone =>
        /\ \A i \in 1..Len(sEvidence) :
             (NoGrowth(sEvidence[i]) /\ ~sComps[i].err) => sComps[i].T = SCALE \div 2
        /\ ( /\ sEvidence # <<>>
             /\ sWeights = DefaultWeights
             /\ \A i \in 1..Len(sEvidence) : NoSignal(sEvidence[i]) )
           => /\ ~sResult.err
              /\ sResult.V = 0 /\ sResult.E = 0 /\ sResult.T = SCALE \div 2
              /\ sResult.decay_multiplier = SCALE
              /\ sResult.popularity_score = SCALE \div 10
        /\ sEvidence = <<>>
           => /\ ~sResult.err
              /\ sResult.V = 0 /\ sResult.E = 0 /\ sResult.T = 0
              /\ sResult.decay_multiplier = SCALE
              /\ sResult.popularity_score = 0

\* aggregate_workflow has returned 0.1 for a group of two items with no metric
\* at all, scored with the default weights.
C39_Witness ==
    /\ sDone
    /\ Len(sEvidence) = 2
    /\ sWeights = DefaultWeights
    /\ \A i \in 1..2 : NoSignal(sEvidence[i]) /\ sComps[i].T = SCALE \div 2
    /\ sResult.popularity_score = SCALE \div 10
====
